---- MODULE Spec2Model ----
(***************************************************************************)
(* The module registry of src/server/aleph.ts: compile, #initModule,       *)
(* #transpileModule, #applyCompilationSideEffect, #replaceDepHash,         *)
(* #cacheModule, computeModuleHash, lookupDeps and the watch handler.      *)
(*                                                                         *)
(* Every async invocation is a task.  A step of a task runs from one       *)
(* suspension point (source fetch, transform call, disk read or write,     *)
(* wait for a `ready` promise) to the next one; steps of different tasks   *)
(* interleave freely.  Digests (sha1, md5) are modelled by the sequence    *)
(* of values fed to the hasher, i.e. as collision free.                    *)
(***************************************************************************)
EXTENDS Naturals, Integers, Sequences, FiniteSets, TLC

\* ---------------------------------------------------------------- bounds
\* root compile calls (compile() from a request or from the watch handler)
MaxCalls == 2
\* edits of source files by the user
MaxEdits == 1
\* distinct well-formed contents of a source file
MaxVer == 2
\* process restarts (a fresh registry over the same build directory)
MaxRestarts == 1
\* size of the task pool
MaxTasks == 8

\* ------------------------------------------------------------ the inputs
Specifiers == {"/a", "/b", "/c"}

\* fetchModule: the source file does not exist
NoFile == 0
\* file contents; the last one is a content the transform collaborator rejects
Contents == 1..(MaxVer + 1)
Broken(code) == code = MaxVer + 1

\* the compiler checksums (wasmChecksum) of the runs
Checksums == {1, 2}
\* build.manifest.json does not exist
NoManifest == 0

\* the import graphs of the project under compilation (what the transform
\* collaborator reports as `deps` for each source file)
ChainGraph == [s \in Specifiers |->
    IF s = "/a" THEN <<"/b">> ELSE IF s = "/b" THEN <<"/c">> ELSE <<>>]
CycleGraph == [s \in Specifiers |->
    IF s = "/a" THEN <<"/b">> ELSE IF s = "/b" THEN <<"/a">> ELSE <<>>]
DiamondGraph == [s \in Specifiers |->
    IF s = "/a" THEN <<"/b", "/c">> ELSE IF s = "/b" THEN <<"/c">> ELSE <<>>]
KnotGraph == [s \in Specifiers |->
    IF s = "/a" THEN <<"/b", "/c">> ELSE IF s = "/b" THEN <<"/c">> ELSE <<"/a">>]
Graphs == {ChainGraph, CycleGraph, DiamondGraph}

\* ------------------------------------------------------------- the state
VARIABLES
    graph,      \* the import graph of the sources (fixed)
    resolvers,  \* #resolverListeners: the onResolve callbacks, in order (fixed)
    compiler,   \* wasmChecksum: the checksum of the compiler of this run
    manifest,   \* build.manifest.json: the compiler checksum it records
    invalidated, \* this run has started by removing the build directory
    src,        \* source files: specifier -> content, or NoFile
    disk,       \* build directory: specifier -> [js, meta]
    modules,    \* #modules: sequence of [key, obj] in insertion order
    heap,       \* Module objects by identity
    tasks,      \* async invocations in progress, and the results of root calls
    tracing,    \* the __tracing set of each root compile call
    writes,     \* Module objects with a #cacheModule call nobody awaits
    loads,      \* per specifier: loader invocations since the process started
    transforms, \* per specifier: transform invocations since the process started
    calls,      \* number of root compile calls made
    edits,      \* number of source edits made
    restarts,   \* number of restarts made
    buffer,     \* one compiled output, byte by byte, with its recorded hashLocs
    sidecar,    \* one module, the metadata file written for it and its restoration
    remote,     \* the specifiers that are URLs of another host (fixed)
    unknown,    \* the specifiers whose source type is SourceType.Unknown (fixed)
    reload,     \* #reload: the process was started to reload the sources (fixed)
    session,    \* sessionStorage: the specifiers with an 'init:' key
    lookup,     \* the last lookupDeps call: its start, its callback and its visits
    hasher,     \* the plugins of one project and the sourceHash computed with them
    appSpecifier, \* the module of the project that is its /app.<ext>, or NoApp (fixed)
    appModule   \* #appModule

vars == <<appSpecifier, appModule, lookup, hasher, buffer, sidecar, remote, unknown, reload, session, graph, resolvers, compiler, manifest, invalidated, src, disk, modules, heap, tasks, tracing, writes, loads,
          transforms, calls, edits, restarts>>

TaskIds == 1..MaxTasks
Objs == 1..(Cardinality(Specifiers) + MaxTasks)

NoMod == 0
NoSource == 0
\* a ModuleSource of type SourceType.Unknown, and its code ''
UnknownSource == -1
EmptyCode == 0
EmptyHash == <<>>
NoBuffer == <<>>

\* no compiled output and no module are under the byte-level and field-level
\* examination of #replaceDepHash and #cacheModule
NoOutput == [output |-> <<>>, jsBuffer |-> <<>>, hashLocs |-> <<>>, n |-> 0]
NoSidecar ==
    [phase |-> "none", option |-> "undefined", module |-> <<>>, file |-> <<>>,
     restored |-> <<>>]

\* no lookupDeps call and no sourceHash are under examination
NoLookup == [start |-> "", stop |-> 0, visits |-> <<>>, returned |-> "none"]
NoHasher == [plugins |-> <<>>, sourceHash |-> <<>>]

\* ------------------------------------------------------- Module objects
\* the object literal of #initModule
NewModule(s) ==
    [specifier |-> s, deps |-> <<>>, sourceHash |-> EmptyHash,
     jsBuffer |-> NoBuffer, ready |-> FALSE, external |-> FALSE]

\* the object literal #initModule returns for an external specifier
ExternalModule(s) ==
    [specifier |-> s, deps |-> <<>>, sourceHash |-> EmptyHash,
     jsBuffer |-> NoBuffer, ready |-> TRUE, external |-> TRUE]

FreeObj ==
    [specifier |-> "", deps |-> <<>>, sourceHash |-> EmptyHash,
     jsBuffer |-> NoBuffer, ready |-> FALSE, external |-> FALSE]

\* the metadata sidecar: `rest` of #cacheModule. shape tells what the text of
\* the file is: "object" (JSON of an object whose deps is an array), "deps"
\* (JSON of an object whose deps is no array) or "text" (no JSON)
NoMeta == [shape |-> "object", specifier |-> "", deps |-> <<>>, sourceHash |-> EmptyHash]
NoArtifact == [js |-> NoBuffer, meta |-> NoMeta]

Rest(m) ==
    [shape |-> "object", specifier |-> m.specifier, deps |-> m.deps,
     sourceHash |-> m.sourceHash]

\* ------------------------------------------------------------- hashing
\* hasher.update(src.code) ... hasher.toString() of #initModule
SourceHashOf(code) == <<code>>

\* hash.substr(0, 6): the marker written at a hashLoc
Marker(hash) == hash

\* the marker the transform collaborator leaves in its output
Placeholder == <<>>

\* --------------------------------------------------------- the registry
RegIndex(reg, s) ==
    IF \E i \in 1..Len(reg) : reg[i].key = s
    THEN CHOOSE i \in 1..Len(reg) : reg[i].key = s
    ELSE 0

\* this.#modules.get(specifier) / getModule(specifier)
GetModule(reg, s) ==
    IF RegIndex(reg, s) = 0 THEN NoMod ELSE reg[RegIndex(reg, s)].obj

\* this.#modules.set(specifier, mod)
RegSet(reg, s, o) ==
    IF RegIndex(reg, s) = 0
    THEN Append(reg, [key |-> s, obj |-> o])
    ELSE [reg EXCEPT ![RegIndex(reg, s)].obj = o]

RemoveAt(seq, i) == [j \in 1..(Len(seq) - 1) |-> IF j < i THEN seq[j] ELSE seq[j + 1]]

\* ---------------------------------------------------------------- tasks
NoTask ==
    [kind |-> "free", pc |-> "-", spec |-> "", force |-> FALSE, ignoreDeps |-> FALSE,
     watch |-> FALSE, parent |-> 0, root |-> 0, mod |-> NoMod, isNew |-> FALSE,
     source |-> NoSource, tgt |-> NoMod, hashLoc |-> 0, hash |-> EmptyHash,
     io |-> FALSE, fsync |-> FALSE, pos |-> 0, casc |-> "-", prev |-> NoMod,
     err |-> FALSE, quiet |-> FALSE]

\* the state the operations below transform
Cur ==
    [reg |-> modules, heap |-> heap, tasks |-> tasks, tracing |-> tracing,
     writes |-> writes, loads |-> loads, transforms |-> transforms,
     appModule |-> appModule, ok |-> TRUE]

FreeTasks(st) == {t \in TaskIds : st.tasks[t].kind = "free"}

UsedObjs(st) ==
    {st.reg[i].obj : i \in 1..Len(st.reg)}
    \cup {st.tasks[t].mod : t \in TaskIds}
    \cup {st.tasks[t].tgt : t \in TaskIds}
    \cup {st.tasks[t].prev : t \in TaskIds}
    \cup st.writes
    \cup {st.appModule}

FreeObjs(st) == Objs \ UsedObjs(st)

Min(S) == CHOOSE x \in S : \A y \in S : x <= y

\* this.#modules.clear(): a removal that empties the registry
RegClear(st, s) == [st EXCEPT !.reg = <<>>]

\* this.#modules.delete(specifier); live iterators over #modules (the scans of
\* #applyCompilationSideEffect) keep their place
RegDelete(st, s) ==
    LET i == RegIndex(st.reg, s) IN
    IF i = 0 THEN st
    ELSE [st EXCEPT
            !.reg = RemoveAt(st.reg, i),
            !.tasks = [t \in TaskIds |->
                IF st.tasks[t].kind = "cascade" /\ st.tasks[t].pos >= i
                THEN [st.tasks[t] EXCEPT !.pos = @ - 1]
                ELSE st.tasks[t]]]

\* ------------------------------------------- lookupDeps, computeModuleHash
\* a lookup that ends at the deps of the start module
LookupDirect(reg, hp, s, acc) ==
    IF GetModule(reg, s) = NoMod THEN acc
    ELSE [out |-> acc.out \o hp[GetModule(reg, s)].deps, tr |-> acc.tr \cup {s}]

RECURSIVE LookupDeps(_, _, _, _), LookupEach(_, _, _, _, _)

\* lookupDeps(specifier, callback, __tracing) with a callback that never returns
\* false: acc.out collects the Dependency records in the order of the callback
LookupDeps(reg, hp, s, acc) ==
    LET mod == GetModule(reg, s) IN
    IF mod = NoMod THEN acc
    ELSE IF s \in acc.tr THEN acc
    ELSE LookupEach(reg, hp, hp[mod].deps, 1,
                    [out |-> acc.out \o hp[mod].deps, tr |-> acc.tr \cup {s}])

LookupEach(reg, hp, deps, i, acc) ==
    IF i > Len(deps) THEN acc
    ELSE LookupEach(reg, hp, deps, i + 1, LookupDeps(reg, hp, deps[i].specifier, acc))

Registered(reg, ds) == SelectSeq(ds, LAMBDA d : GetModule(reg, d.specifier) # NoMod)

\* computeModuleHash(module): md5 over module.sourceHash and the sourceHash of
\* the registered module of every dependency lookupDeps visits
ComputeModuleHash(reg, hp, o) ==
    LET ds == Registered(reg, LookupDeps(reg, hp, hp[o].specifier, [out |-> <<>>, tr |-> {}]).out)
    IN <<hp[o].sourceHash>> \o [i \in 1..Len(ds) |-> hp[GetModule(reg, ds[i].specifier)].sourceHash]

\* ------------------------------------------------ the transform collaborator
\* encoder.encode(jsCode): cell 1 stands for the code, cell i + 1 for the marker
\* of the i-th import
Output(g, s, code) == <<<<SourceHashOf(code)>>>> \o [i \in 1..Len(g[s]) |-> Placeholder]

\* module.deps of #transpileModule: the mark of every local import ('/...') is
\* found in the output and its hashLoc is recorded; the import of a URL has none
DepsOf(g, s) ==
    [i \in 1..Len(g[s]) |->
        [specifier |-> g[s][i], hashLoc |-> IF g[s][i] \in remote THEN 0 ELSE i + 1]]

\* --------------------------------------------------------- #replaceDepHash
\* a comparison that finds every marker out of date
AlwaysDiffers(buf, loc, hash) == buf # NoBuffer

\* !equals(hashData, jsBuffer.slice(hashLoc, hashLoc + 6))
Differs(buf, loc, hash) == buf # NoBuffer /\ loc \in DOMAIN buf /\ buf[loc] # Marker(hash)

\* copy(hashData, jsBuffer, hashLoc)
CopyHash(buf, loc, hash) == [buf EXCEPT ![loc] = Marker(hash)]

\* ------------------------------------------------------------ #initModule
\* a resolution that ignores the onResolve callbacks
ResolveAsIs(rs, s) == [specifier |-> s, external |-> FALSE]

\* a loop over #resolverListeners without its break: the last callback whose
\* test matches decides
ResolveLast(rs, s) ==
    LET I == {i \in 1..Len(rs) : s \in rs[i].test} IN
    IF I = {} THEN [specifier |-> s, external |-> FALSE]
    ELSE LET i == CHOOSE i \in I : \A j \in I : j <= i
         IN [specifier |-> IF rs[i].specifier # "" THEN rs[i].specifier ELSE s,
             external |-> rs[i].external]

\* the loop over #resolverListeners: the first callback whose test matches
\* decides the specifier and whether it is external
Resolve(rs, s) ==
    LET I == {i \in 1..Len(rs) : s \in rs[i].test} IN
    IF I = {} THEN [specifier |-> s, external |-> FALSE]
    ELSE [specifier |-> IF rs[Min(I)].specifier # "" THEN rs[Min(I)].specifier ELSE s,
          external |-> rs[Min(I)].external]

\* the project has no /app.<ext>
NoApp == ""

\* trimBuiltinModuleExts(specifier) === '/app'
IsApp(s) == s = appSpecifier

\* if (trimBuiltinModuleExts(specifier) === '/app') this.#appModule = mod
SetAppModule(am, s, o) == IF IsApp(s) THEN o ELSE am

\* #initModule without the registry lookup: every call makes a new module
InitModuleAnew(st, t, s, force) ==
    IF FreeObjs(st) = {} THEN [st EXCEPT !.ok = FALSE]
    ELSE LET o == Min(FreeObjs(st)) IN
         [st EXCEPT !.heap[o] = NewModule(s),
                    !.reg = RegSet(@, s, o),
                    !.tasks[t].mod = o,
                    !.tasks[t].isNew = (GetModule(st.reg, s) = NoMod),
                    !.tasks[t].pc = IF force THEN "load" ELSE "read_meta",
                    !.loads[s] = IF force THEN @ + 1 ELSE @]

\* #initModule that does not store the new module in the registry
InitModuleUnpublished(st, t, s, force) ==
    LET m == GetModule(st.reg, s) IN
    IF m # NoMod /\ ~force
    THEN [st EXCEPT !.tasks[t].pc = "await_ready", !.tasks[t].mod = m]
    ELSE IF FreeObjs(st) = {} THEN [st EXCEPT !.ok = FALSE]
    ELSE LET o == Min(FreeObjs(st)) IN
         [st EXCEPT !.heap[o] = NewModule(s),
                    !.tasks[t].mod = o,
                    !.tasks[t].isNew = (m = NoMod),
                    !.tasks[t].pc = IF force THEN "load" ELSE "read_meta",
                    !.loads[s] = IF force THEN @ + 1 ELSE @]

\* #initModule up to its first suspension point, run by task t: the registry
\* lookup, and for a new or refreshed module the new Module object, published
\* in the registry before any I/O
InitModule(st, t, spec, force) ==
    LET r == Resolve(resolvers, spec)
        s == r.specifier
        m == GetModule(st.reg, s)
    IN IF ~r.external /\ m # NoMod /\ ~force
       THEN [st EXCEPT !.tasks[t].pc = "await_ready", !.tasks[t].spec = s,
                       !.tasks[t].mod = m]
       ELSE IF FreeObjs(st) = {} THEN [st EXCEPT !.ok = FALSE]
       ELSE IF r.external
       THEN [st EXCEPT !.heap[Min(FreeObjs(st))] = ExternalModule(s),
                       !.tasks[t].spec = s,
                       !.tasks[t].mod = Min(FreeObjs(st)),
                       !.tasks[t].pc = "external"]
       ELSE LET o == Min(FreeObjs(st)) IN
            [st EXCEPT !.heap[o] = NewModule(s),
                       !.reg = RegSet(@, s, o),
                       !.appModule = SetAppModule(@, s, o),
                       !.tasks[t].spec = s,
                       !.tasks[t].mod = o,
                       !.tasks[t].isNew = (m = NoMod),
                       !.tasks[t].pc = IF force THEN "load" ELSE "read_meta",
                       !.loads[s] = IF force THEN @ + 1 ELSE @]

\* a metadata check that accepts no sidecar
NeverValid(meta, s) == FALSE

\* a metadata check that accepts every sidecar
AlwaysValid(meta, s) == TRUE

\* meta.specifier === specifier && isFilledString(meta.sourceHash) && isArray(meta.deps)
ValidMeta(meta, s) ==
    meta.specifier = s /\ meta.sourceHash # EmptyHash /\ meta.shape # "deps"

\* JSON.parse(await Deno.readTextFile(metaFilePath)) does not throw
Parses(meta) == meta.shape # "text"

\* defer(err) that leaves the registry as it is
DeferKeep(st, t, failed) ==
    [st EXCEPT !.heap[st.tasks[t].mod].ready = TRUE, !.tasks[t].err = failed]

\* a catch that returns without defer(err): the ready of a module whose load
\* has failed stays pending
DeferOnSuccess(st, t, failed) ==
    IF failed THEN [st EXCEPT !.tasks[t].err = TRUE]
    ELSE [st EXCEPT !.heap[st.tasks[t].mod].ready = TRUE, !.tasks[t].err = FALSE]

\* defer(err): a failed load removes the registry entry of a module that was new
Defer(st, t, failed) ==
    LET tk == st.tasks[t]
        st1 == IF failed /\ tk.isNew THEN RegDelete(st, tk.spec) ELSE st
    IN [st1 EXCEPT !.heap[tk.mod].ready = TRUE, !.tasks[t].err = failed]

\* --------------------------------------- the end of a dependency's callback
\* the callback of module.deps.map(...) after its dependency is compiled: the
\* call of #replaceDepHash(module, hashLoc, hash) when the importer's buffer is
\* in memory (tgt is the importer)
FinishDep(st, c, changed) ==
    LET ck == st.tasks[c] IN
    IF ck.parent = 0 THEN [st EXCEPT !.tasks[c] = NoTask]
    ELSE [st EXCEPT !.tasks[c].pc = "done",
                    !.tasks[ck.parent].fsync = @ \/ changed]

PatchParent(st, c) ==
    LET ck == st.tasks[c]
        hash == ComputeModuleHash(st.reg, st.heap, ck.mod)
        buf == st.heap[ck.tgt].jsBuffer
    IN IF ck.hashLoc = 0 THEN FinishDep(st, c, FALSE)
       ELSE IF buf = NoBuffer
       THEN [st EXCEPT !.tasks[c].pc = "patch_io", !.tasks[c].hash = hash]
       ELSE IF Differs(buf, ck.hashLoc, hash)
       THEN FinishDep([st EXCEPT !.heap[ck.tgt].jsBuffer = CopyHash(buf, ck.hashLoc, hash)],
                      c, TRUE)
       ELSE FinishDep(st, c, FALSE)

\* ------------------------------------------- #applyCompilationSideEffect
\* the dependency record of module o on specifier s that has a hashLoc, if any
MatchLoc(hp, o, s) ==
    LET ds == hp[o].deps
        I == {i \in 1..Len(ds) : ds[i].specifier = s /\ ds[i].hashLoc # 0}
    IN IF I = {} THEN 0 ELSE ds[Min(I)].hashLoc

\* the scan of this.#modules.values(): the first entry after position pos with
\* a dependency on s that has a hashLoc (0: none)
NextMatch(st, s, pos) ==
    LET I == {i \in (pos + 1)..Len(st.reg) : MatchLoc(st.heap, st.reg[i].obj, s) # 0}
    IN IF I = {} THEN 0 ELSE Min(I)

\* the propagation by module `by` from position pos on, up to its next
\* `await this.#replaceDepHash(...)`; k is the task of the propagation (0: the
\* call starts here), owner the watch handler's compile call (0: a nested call)
Scan(st, k, by, owner, pos, hash) ==
    LET s == st.heap[by].specifier
        i == NextMatch(st, s, pos)
        st0 == IF k = 0 THEN st ELSE [st EXCEPT !.tasks[k] = NoTask]
    IN IF i = 0
       THEN IF owner = 0 THEN st0 ELSE [st0 EXCEPT !.tasks[owner].casc = "done"]
       ELSE IF FreeTasks(st0) = {} THEN [st EXCEPT !.ok = FALSE]
       ELSE LET n == IF k = 0 THEN Min(FreeTasks(st0)) ELSE k
                o == st.reg[i].obj
                h == IF hash = EmptyHash THEN ComputeModuleHash(st.reg, st.heap, by) ELSE hash
                st1 == [st0 EXCEPT !.tasks[n] =
                          [NoTask EXCEPT !.kind = "cascade", !.pc = "patch", !.spec = s,
                                         !.mod = by, !.parent = owner, !.pos = i, !.tgt = o,
                                         !.hashLoc = MatchLoc(st.heap, o, s), !.hash = h,
                                         !.io = (st.heap[o].jsBuffer = NoBuffer)]]
            IN IF owner = 0 THEN st1 ELSE [st1 EXCEPT !.tasks[owner].casc = "running"]

\* a propagation that has the transform run again on a module it has patched
ApplyByRecompiling(st, by, owner) ==
    LET st1 == Scan(st, 0, by, owner, 0, EmptyHash) IN
    IF owner = 0 THEN [st1 EXCEPT !.transforms[st.heap[by].specifier] = @ + 1] ELSE st1

\* #applyCompilationSideEffect(by, callback): __tracing is a new set on every
\* call (the recursive call does not pass it on), so the guard never returns
ApplyCompilationSideEffect(st, by, owner) == Scan(st, 0, by, owner, 0, EmptyHash)

\* ------------------------------------------------------- #transpileModule
\* #transpileModule returns in task t: a dependency's callback goes on to
\* patch its importer, compile returns the module, and the watch handler
\* starts the propagation
Return(st, t) ==
    LET tk == st.tasks[t] IN
    IF tk.kind = "dep" THEN PatchParent(st, t)
    ELSE IF tk.watch
    THEN ApplyCompilationSideEffect([st EXCEPT !.tasks[t].pc = "done", !.tasks[t].casc = "done"],
                                    tk.mod, t)
    ELSE [st EXCEPT !.tasks[t].pc = "done"]

\* if (!module.external) await this.#transpileModule(...): for an external
\* module the caller goes on at once
SkipExternal(st, t) ==
    IF st.ok /\ st.tasks[t].pc = "external" THEN Return(st, t) ELSE st

\* a callback that takes no notice of ignoreDeps
SpawnDepAlways(st, t, dep) ==
    IF FreeTasks(st) = {} THEN [st EXCEPT !.ok = FALSE]
    ELSE LET c == Min(FreeTasks(st))
             tk == st.tasks[t]
             st1 == [st EXCEPT !.tasks[c] =
                       [NoTask EXCEPT !.kind = "dep", !.spec = dep.specifier, !.parent = t,
                                      !.root = tk.root, !.tgt = tk.mod,
                                      !.hashLoc = dep.hashLoc]]
         IN SkipExternal(InitModule(st1, c, dep.specifier, FALSE), c)

\* one callback of module.deps.map(async ({ specifier, hashLoc }) => ...), up
\* to its first suspension point
SpawnDep(st, t, dep) ==
    IF FreeTasks(st) = {} THEN [st EXCEPT !.ok = FALSE]
    ELSE LET c == Min(FreeTasks(st))
             tk == st.tasks[t]
             m == GetModule(st.reg, dep.specifier)
             st1 == [st EXCEPT !.tasks[c] =
                       [NoTask EXCEPT !.kind = "dep", !.spec = dep.specifier, !.parent = t,
                                      !.root = tk.root, !.tgt = tk.mod,
                                      !.hashLoc = dep.hashLoc]]
         IN IF tk.ignoreDeps /\ m # NoMod
            THEN PatchParent([st1 EXCEPT !.tasks[c].mod = m], c)
            ELSE SkipExternal(InitModule(st1, c, dep.specifier, FALSE), c)

RECURSIVE SpawnDeps(_, _, _, _)
SpawnDeps(st, t, deps, i) ==
    IF i > Len(deps) \/ ~st.ok THEN st
    ELSE SpawnDeps(SpawnDep(st, t, deps[i]), t, deps, i + 1)

\* if (module.deps.length > 0) await Promise.all(module.deps.map(...))
FanOut(st, t) ==
    LET deps == st.heap[st.tasks[t].mod].deps IN
    IF Len(deps) = 0 THEN Return(st, t)
    ELSE SpawnDeps([st EXCEPT !.tasks[t].pc = "await_deps", !.tasks[t].fsync = FALSE],
                   t, deps, 1)

\* #transpileModule without the __tracing guard
TranspileUntraced(st, t, source) ==
    LET s == st.heap[st.tasks[t].mod].specifier IN
    IF source # NoSource
    THEN [st EXCEPT !.tasks[t].pc = "transform", !.tasks[t].source = source,
                    !.transforms[s] = @ + 1]
    ELSE FanOut(st, t)

\* #transpileModule without the check of the source type
TranspileUnchecked(st, t, source) ==
    LET tk == st.tasks[t]
        s == st.heap[tk.mod].specifier
    IN IF s \in st.tracing[tk.root] THEN Return(st, t)
       ELSE LET st1 == [st EXCEPT !.tracing[tk.root] = @ \cup {s}] IN
            IF source # NoSource
            THEN [st1 EXCEPT !.tasks[t].pc = "transform", !.tasks[t].source = source,
                             !.transforms[s] = @ + 1]
            ELSE FanOut(st1, t)

\* #transpileModule(module, source, ignoreDeps, __tracing) up to its first
\* suspension point
TranspileModule(st, t, source) ==
    LET tk == st.tasks[t]
        s == st.heap[tk.mod].specifier
    IN IF s \in st.tracing[tk.root] THEN Return(st, t)
       ELSE LET st1 == [st EXCEPT !.tracing[tk.root] = @ \cup {s}] IN
            IF source = UnknownSource THEN Return(st1, t)
            ELSE IF source # NoSource
            THEN [st1 EXCEPT !.tasks[t].pc = "transform", !.tasks[t].source = source,
                             !.transforms[s] = @ + 1]
            ELSE FanOut(st1, t)

\* a failure that is swallowed: the task returns as if nothing had happened
FailSwallowed(st, t) == Return(st, t)

\* a rejection that rolls the new module back, as the catch of the load does
FailRollback(st, t) ==
    LET tk == st.tasks[t]
        st1 == IF tk.isNew THEN RegDelete(st, tk.spec) ELSE st
    IN IF tk.kind = "dep" /\ tk.parent = 0 THEN [st1 EXCEPT !.tasks[t] = NoTask]
       ELSE [st1 EXCEPT !.tasks[t].pc = "failed"]

\* a rejection in task t: of a dependency's callback (its importer's
\* Promise.all rejects) or of the compile call
Fail(st, t) ==
    LET tk == st.tasks[t] IN
    IF tk.kind = "dep" /\ tk.parent = 0 THEN [st EXCEPT !.tasks[t] = NoTask]
    ELSE [st EXCEPT !.tasks[t].pc = "failed"]

Children(st, t) == {c \in TaskIds : st.tasks[c].kind = "dep" /\ st.tasks[c].parent = t}

\* the callbacks of task t are left to themselves or forgotten
Release(st, t) ==
    [st EXCEPT !.tasks = [c \in TaskIds |->
        IF c \in Children(st, t)
        THEN IF st.tasks[c].pc \in {"done", "failed"} THEN NoTask
             ELSE [st.tasks[c] EXCEPT !.parent = 0]
        ELSE st.tasks[c]]]

\* this.#reload && sessionStorage.getItem('init:' + specifier) === null
Reload(s) == reload /\ s \notin session

\* ------------------------------------------------------------ the actions
Init ==
    /\ graph \in Graphs
    /\ resolvers = <<>>
    /\ compiler = 1
    /\ manifest = 1
    /\ invalidated = FALSE
    /\ src = [s \in Specifiers |-> 1]
    /\ disk = [s \in Specifiers |-> NoArtifact]
    /\ modules = <<>>
    /\ heap = [o \in Objs |-> FreeObj]
    /\ tasks = [t \in TaskIds |-> NoTask]
    /\ tracing = [t \in TaskIds |-> {}]
    /\ writes = {}
    /\ loads = [s \in Specifiers |-> 0]
    /\ transforms = [s \in Specifiers |-> 0]
    /\ calls = 0
    /\ edits = 0
    /\ restarts = 0
    /\ buffer = NoOutput
    /\ sidecar = NoSidecar
    /\ lookup = NoLookup
    /\ appSpecifier = NoApp
    /\ appModule = NoMod
    /\ hasher = NoHasher
    /\ remote = {}
    /\ unknown = {}
    /\ reload = FALSE
    /\ session = {}

Running(st, r) ==
    \E u \in TaskIds : st.tasks[u].root = r /\ st.tasks[u].pc \notin {"-", "done", "failed"}

\* the next state of the process; Module objects and tracing sets nothing
\* refers to any more are dropped
Commit(result) ==
    \E st \in {result} :
        /\ st.ok
        /\ modules' = st.reg
        /\ heap' = [o \in Objs |-> IF o \in UsedObjs(st) THEN st.heap[o] ELSE FreeObj]
        /\ tasks' = st.tasks
        /\ tracing' = [r \in TaskIds |-> IF Running(st, r) THEN st.tracing[r] ELSE {}]
        /\ writes' = st.writes
        /\ loads' = st.loads
        /\ transforms' = st.transforms
        /\ appModule' = st.appModule

At(t, pc) == tasks[t].kind # "free" /\ tasks[t].pc = pc

\* an earlier compile(s) call has returned its module without a logged error
Completed(s) ==
    \E r \in TaskIds : /\ tasks[r].kind = "compile"
                        /\ tasks[r].spec = s
                        /\ tasks[r].pc = "done"
                        /\ ~tasks[r].err

\* no call and no callback is in flight
Settled == \A t \in TaskIds : tasks[t].pc \in {"-", "done"}

\* compile(specifier): a call from outside, up to its first suspension point
\* (`quiet` notes that the call is made while nothing else is in flight)
Call(s, force, ignoreDeps, watch) ==
    /\ calls < MaxCalls
    /\ FreeTasks(Cur) # {}
    /\ LET t == Min(FreeTasks(Cur))
           st == [Cur EXCEPT !.tasks[t] =
                    [NoTask EXCEPT !.kind = "compile", !.spec = s, !.root = t,
                                   !.force = force, !.ignoreDeps = ignoreDeps,
                                   !.watch = watch,
                                   !.prev = IF watch THEN GetModule(modules, s)
                                            ELSE NoMod,
                                   !.quiet = Settled /\ writes = {}]]
       IN Commit(SkipExternal(InitModule(st, t, s, force), t))
    /\ calls' = calls + 1
    /\ session' = IF force /\ ~Resolve(resolvers, s).external /\ Reload(Resolve(resolvers, s).specifier)
                  THEN session \cup {Resolve(resolvers, s).specifier}
                  ELSE session
    /\ UNCHANGED <<appSpecifier, lookup, hasher, buffer, sidecar, remote, unknown, reload, graph, resolvers, compiler, manifest, invalidated, src, disk, edits, restarts>>

Compile(s) == Call(s, FALSE, FALSE, FALSE)

\* #watchHandler: the file exists and the module is registered (prev is its
\* prevModule)
WatchModify(s) ==
    /\ src[s] # NoFile
    /\ GetModule(modules, s) # NoMod
    /\ Call(s, TRUE, TRUE, TRUE)

\* #watchHandler: the file is gone
WatchRemove(s) ==
    /\ src[s] = NoFile
    /\ GetModule(modules, s) # NoMod
    /\ Commit(RegDelete(Cur, s))
    /\ UNCHANGED <<appSpecifier, lookup, hasher, buffer, sidecar, remote, unknown, reload, session, graph, resolvers, compiler, manifest, invalidated, src, disk, calls, edits, restarts>>

\* await mod.ready; return [mod, null]
AwaitReady(t) ==
    /\ At(t, "await_ready")
    /\ heap[tasks[t].mod].ready
    /\ Commit(TranspileModule(Cur, t, NoSource))
    /\ UNCHANGED <<appSpecifier, lookup, hasher, buffer, sidecar, remote, unknown, reload, session, graph, resolvers, compiler, manifest, invalidated, src, disk, calls, edits, restarts>>

\* a decision that loads every module
AlwaysLoad(s, m) == TRUE

\* !isRemote || mod.sourceHash === '' || reload || !(await existsFile(jsFilePath))
NeedsLoad(s, m) ==
    \/ s \notin remote
    \/ m.sourceHash = EmptyHash
    \/ Reload(s)
    \/ disk[s].js = NoBuffer

\* the metadata sidecar is read and, when well-formed, merged into the module;
\* then the source is loaded, or the module is ready as the metadata gives it
ReadMeta(t) ==
    /\ At(t, "read_meta")
    /\ LET tk == tasks[t]
           meta == disk[tk.spec].meta
           parsed == meta # NoMeta /\ Parses(meta)
           valid == parsed /\ ValidMeta(meta, tk.spec)
           st == [Cur EXCEPT
                    !.heap[tk.mod] = IF valid
                                     THEN [@ EXCEPT !.specifier = meta.specifier,
                                                    !.deps = meta.deps,
                                                    !.sourceHash = meta.sourceHash]
                                     ELSE @]
       IN /\ IF NeedsLoad(tk.spec, st.heap[tk.mod])
             THEN Commit([st EXCEPT !.tasks[t].pc = "load", !.loads[tk.spec] = @ + 1])
             ELSE Commit(TranspileModule(Defer(st, t, FALSE), t, NoSource))
          /\ session' = IF NeedsLoad(tk.spec, st.heap[tk.mod]) /\ Reload(tk.spec)
                        THEN session \cup {tk.spec}
                        ELSE session
          /\ disk' = IF parsed /\ ~valid
                     THEN [disk EXCEPT ![tk.spec].meta = NoMeta]
                     ELSE disk
    /\ UNCHANGED <<appSpecifier, lookup, hasher, buffer, sidecar, remote, unknown, reload, graph, resolvers, compiler, manifest, invalidated, src, calls, edits, restarts>>

\* resolveModuleSource succeeds: the sourceHash is computed and compared
LoadOk(t) ==
    /\ At(t, "load")
    /\ src[tasks[t].spec] # NoFile
    /\ LET tk == tasks[t]
           code == IF tk.spec \in unknown THEN EmptyCode ELSE src[tk.spec]
           h == SourceHashOf(code)
           changed == heap[tk.mod].sourceHash # h
           source == IF tk.spec \in unknown THEN UnknownSource ELSE code
           st == Defer([Cur EXCEPT !.heap[tk.mod].sourceHash = h], t, FALSE)
       IN Commit(TranspileModule(st, t, IF changed THEN source ELSE NoSource))
    /\ UNCHANGED <<appSpecifier, lookup, hasher, buffer, sidecar, remote, unknown, reload, session, graph, resolvers, compiler, manifest, invalidated, src, disk, calls, edits, restarts>>

\* resolveModuleSource throws: defer(err); return [mod, null]
LoadFail(t) ==
    /\ At(t, "load")
    /\ src[tasks[t].spec] = NoFile
    /\ Commit(TranspileModule(Defer(Cur, t, TRUE), t, NoSource))
    /\ UNCHANGED <<appSpecifier, lookup, hasher, buffer, sidecar, remote, unknown, reload, session, graph, resolvers, compiler, manifest, invalidated, src, disk, calls, edits, restarts>>

\* the transform collaborator returns: jsBuffer and deps are set, and
\* #cacheModule is called
TransformOk(t) ==
    /\ At(t, "transform")
    /\ ~Broken(tasks[t].source)
    /\ LET tk == tasks[t]
           s == heap[tk.mod].specifier
       IN Commit([Cur EXCEPT !.heap[tk.mod].jsBuffer = Output(graph, s, tk.source),
                             !.heap[tk.mod].deps = DepsOf(graph, s),
                             !.tasks[t].pc = "cache",
                             !.tasks[t].source = NoSource])
    /\ UNCHANGED <<appSpecifier, lookup, hasher, buffer, sidecar, remote, unknown, reload, session, graph, resolvers, compiler, manifest, invalidated, src, disk, calls, edits, restarts>>

\* the transform collaborator throws
TransformFail(t) ==
    /\ At(t, "transform")
    /\ Broken(tasks[t].source)
    /\ Commit(Fail([Cur EXCEPT !.tasks[t].source = NoSource], t))
    /\ UNCHANGED <<appSpecifier, lookup, hasher, buffer, sidecar, remote, unknown, reload, session, graph, resolvers, compiler, manifest, invalidated, src, disk, calls, edits, restarts>>

\* #cacheModule: the writes of the output file and of the metadata sidecar
Persist(d, m) ==
    IF m.jsBuffer = NoBuffer THEN d
    ELSE [d EXCEPT ![m.specifier] = [js |-> m.jsBuffer, meta |-> Rest(m)]]

\* the awaited #cacheModule of a transformed module completes
CacheWrite(t) ==
    /\ At(t, "cache")
    /\ disk' = Persist(disk, heap[tasks[t].mod])
    /\ Commit(FanOut(Cur, t))
    /\ UNCHANGED <<appSpecifier, lookup, hasher, buffer, sidecar, remote, unknown, reload, session, graph, resolvers, compiler, manifest, invalidated, src, calls, edits, restarts>>

\* Promise.all of the dependencies' callbacks resolves
Join(t) ==
    /\ At(t, "await_deps")
    /\ \A c \in Children(Cur, t) : tasks[c].pc = "done"
    /\ LET st == Release(Cur, t) IN
       IF tasks[t].fsync
       THEN Commit([st EXCEPT !.tasks[t].pc = "cache_again", !.tasks[t].fsync = FALSE])
       ELSE Commit(Return(st, t))
    /\ UNCHANGED <<appSpecifier, lookup, hasher, buffer, sidecar, remote, unknown, reload, session, graph, resolvers, compiler, manifest, invalidated, src, disk, calls, edits, restarts>>

\* Promise.all of the dependencies' callbacks rejects
JoinFail(t) ==
    /\ At(t, "await_deps")
    /\ \E c \in Children(Cur, t) : tasks[c].pc = "failed"
    /\ Commit(Fail(Release(Cur, t), t))
    /\ UNCHANGED <<appSpecifier, lookup, hasher, buffer, sidecar, remote, unknown, reload, session, graph, resolvers, compiler, manifest, invalidated, src, disk, calls, edits, restarts>>

\* if (fsync) await this.#cacheModule(module) completes
CacheAgain(t) ==
    /\ At(t, "cache_again")
    /\ disk' = Persist(disk, heap[tasks[t].mod])
    /\ Commit(Return(Cur, t))
    /\ UNCHANGED <<appSpecifier, lookup, hasher, buffer, sidecar, remote, unknown, reload, session, graph, resolvers, compiler, manifest, invalidated, src, calls, edits, restarts>>

\* getModuleJS reads the output file of a module whose buffer was not in memory
LoadJS(st, o) ==
    LET js == disk[st.heap[o].specifier].js IN
    IF js = NoBuffer THEN st ELSE [st EXCEPT !.heap[o].jsBuffer = js]

\* #replaceDepHash of a dependency's callback, the importer's buffer read from disk
PatchIO(c) ==
    /\ At(c, "patch_io")
    /\ LET ck == tasks[c]
           st == LoadJS(Cur, ck.tgt)
           buf == st.heap[ck.tgt].jsBuffer
       IN IF Differs(buf, ck.hashLoc, ck.hash)
          THEN Commit(FinishDep([st EXCEPT !.heap[ck.tgt].jsBuffer = CopyHash(buf, ck.hashLoc, ck.hash),
                                           !.tasks[c].hash = EmptyHash], c, TRUE))
          ELSE Commit(FinishDep([st EXCEPT !.tasks[c].hash = EmptyHash], c, FALSE))
    /\ UNCHANGED <<appSpecifier, lookup, hasher, buffer, sidecar, remote, unknown, reload, session, graph, resolvers, compiler, manifest, invalidated, src, disk, calls, edits, restarts>>

\* one `await this.#replaceDepHash(mod, hashLoc, hash)` of a propagation, and
\* the scan up to the next one
CascadeStep(k) ==
    /\ At(k, "patch")
    /\ LET ck == tasks[k] IN
       \E st0 \in {IF ck.io THEN LoadJS(Cur, ck.tgt) ELSE Cur} :
       \E changed \in {Differs(st0.heap[ck.tgt].jsBuffer, ck.hashLoc, ck.hash)} :
       \E st1 \in {IF changed
                    THEN [st0 EXCEPT !.heap[ck.tgt].jsBuffer =
                                        CopyHash(st0.heap[ck.tgt].jsBuffer, ck.hashLoc, ck.hash)]
                    ELSE st0} :
       \E st2 \in {IF changed THEN ApplyCompilationSideEffect(st1, ck.tgt, 0) ELSE st1} :
       \E st3 \in {IF changed THEN [st2 EXCEPT !.writes = @ \cup {ck.tgt}] ELSE st2} :
           Commit(Scan(st3, k, ck.mod, ck.parent, st3.tasks[k].pos, ck.hash))
    /\ UNCHANGED <<appSpecifier, lookup, hasher, buffer, sidecar, remote, unknown, reload, session, graph, resolvers, compiler, manifest, invalidated, src, disk, calls, edits, restarts>>

\* a #cacheModule call of a propagation, which nobody awaits, completes
FlushWrite(o) ==
    /\ o \in writes
    /\ disk' = Persist(disk, heap[o])
    /\ Commit([Cur EXCEPT !.writes = @ \ {o}])
    /\ UNCHANGED <<appSpecifier, lookup, hasher, buffer, sidecar, remote, unknown, reload, session, graph, resolvers, compiler, manifest, invalidated, src, calls, edits, restarts>>

\* the user edits, creates or deletes a source file
EditSource(s, v) ==
    /\ edits < MaxEdits
    /\ v # src[s]
    /\ src' = [src EXCEPT ![s] = v]
    /\ edits' = edits + 1
    /\ UNCHANGED <<appSpecifier, appModule, lookup, hasher, buffer, sidecar, remote, unknown, reload, session, graph, resolvers, compiler, manifest, invalidated, disk, modules, heap, tasks, tracing, writes, loads,
                   transforms, calls, restarts>>

\* a start that never removes the build directory
NeverOutdated(m, c) == FALSE

\* #init: the manifest exists and records another compiler checksum
Outdated(m, c) == m # NoManifest /\ m # c

\* the process is started again over the same build directory, with the
\* compiler of checksum c: #init up to the compile calls for the entry modules
Restart(c) ==
    /\ restarts < MaxRestarts
    /\ modules # <<>>
    /\ restarts' = restarts + 1
    /\ compiler' = c
    /\ invalidated' = Outdated(manifest, c)
    /\ disk' = IF Outdated(manifest, c) THEN [s \in Specifiers |-> NoArtifact] ELSE disk
    /\ manifest' = c
    /\ modules' = <<>>
    /\ heap' = [o \in Objs |-> FreeObj]
    /\ tasks' = [t \in TaskIds |-> NoTask]
    /\ tracing' = [t \in TaskIds |-> {}]
    /\ writes' = {}
    /\ loads' = [s \in Specifiers |-> 0]
    /\ transforms' = [s \in Specifiers |-> 0]
    /\ session' = {}
    /\ appModule' = NoMod
    /\ UNCHANGED <<appSpecifier, lookup, hasher, buffer, sidecar, remote, unknown, reload, graph, resolvers, src, calls, edits>>

TaskStep(t) ==
    \/ AwaitReady(t)
    \/ ReadMeta(t)
    \/ LoadOk(t)
    \/ LoadFail(t)
    \/ TransformOk(t)
    \/ TransformFail(t)
    \/ CacheWrite(t)
    \/ Join(t)
    \/ JoinFail(t)
    \/ CacheAgain(t)
    \/ PatchIO(t)
    \/ CascadeStep(t)

Next ==
    \/ \E s \in Specifiers : Compile(s)
    \/ \E s \in Specifiers : WatchModify(s)
    \/ \E s \in Specifiers : WatchRemove(s)
    \/ \E t \in TaskIds : TaskStep(t)
    \/ \E o \in Objs : FlushWrite(o)
    \/ \E s \in Specifiers, v \in Contents \cup {NoFile} : EditSource(s, v)
    \/ \E c \in Checksums : Restart(c)

\* the whole model
Spec == Init /\ [][Next]_vars

\* ----------------------------------------------------- the first build
\* compile calls on an empty registry and an empty build directory, the
\* sources present and well-formed
StepFirst(t) ==
    \/ AwaitReady(t)
    \/ ReadMeta(t)
    \/ LoadOk(t)
    \/ TransformOk(t)
    \/ CacheWrite(t)
    \/ Join(t)
    \/ CacheAgain(t)

NextFirst ==
    \/ \E s \in Specifiers : Compile(s)
    \/ \E t \in TaskIds : StepFirst(t)

SpecFirst == Init /\ [][NextFirst]_vars

\* the first build of a project with the import cycle /a -> /b -> /a; every
\* pending I/O operation and transform call completes
InitCycle == Init /\ graph = CycleGraph

SpecCycle ==
    InitCycle /\ [][NextFirst]_vars /\ WF_vars(\E t \in TaskIds : StepFirst(t))

\* concurrent compile calls on the import cycle /a -> /b -> /a and on the chain
\* /a -> /b -> /c, where a source file may be missing or may be one the
\* transform rejects; every pending load, transform and disk operation
\* completes or fails (the existsFile calls of #initModule, which are outside
\* its try block, answer)
SourceStates ==
    {[s \in Specifiers |-> 1],
     [s \in Specifiers |-> IF s = "/a" THEN NoFile ELSE 1],
     [s \in Specifiers |-> IF s = "/b" THEN NoFile ELSE 1],
     [s \in Specifiers |-> IF s = "/a" THEN MaxVer + 1 ELSE 1],
     [s \in Specifiers |-> IF s = "/b" THEN MaxVer + 1 ELSE 1]}

InitLive ==
    /\ graph \in {CycleGraph, ChainGraph}
    /\ src \in SourceStates
    /\ unknown = {}
    /\ remote = {}
    /\ reload = FALSE
    /\ session = {}
    /\ resolvers = <<>>
    /\ compiler = 1
    /\ manifest = 1
    /\ invalidated = FALSE
    /\ disk = [s \in Specifiers |-> NoArtifact]
    /\ modules = <<>>
    /\ heap = [o \in Objs |-> FreeObj]
    /\ tasks = [t \in TaskIds |-> NoTask]
    /\ tracing = [t \in TaskIds |-> {}]
    /\ writes = {}
    /\ loads = [s \in Specifiers |-> 0]
    /\ transforms = [s \in Specifiers |-> 0]
    /\ calls = 0
    /\ edits = 0
    /\ restarts = 0
    /\ buffer = NoOutput
    /\ sidecar = NoSidecar
    /\ lookup = NoLookup
    /\ appSpecifier = NoApp
    /\ appModule = NoMod
    /\ hasher = NoHasher

StepLive(t) ==
    \/ AwaitReady(t)
    \/ ReadMeta(t)
    \/ LoadOk(t)
    \/ LoadFail(t)
    \/ TransformOk(t)
    \/ TransformFail(t)
    \/ CacheWrite(t)
    \/ Join(t)
    \/ JoinFail(t)
    \/ CacheAgain(t)

NextLive ==
    \/ \E s \in Specifiers : Compile(s)
    \/ \E t \in TaskIds : StepLive(t)

SpecLive == InitLive /\ [][NextLive]_vars /\ WF_vars(\E t \in TaskIds : StepLive(t))

\* a project with the imports /a -> /b, /c; /b -> /c; /c -> /a, compiled from
\* its entry point /a, one call after the other
InitKnot ==
    /\ graph = KnotGraph
    /\ resolvers = <<>>
    /\ compiler = 1
    /\ manifest = 1
    /\ invalidated = FALSE
    /\ src = [s \in Specifiers |-> 1]
    /\ disk = [s \in Specifiers |-> NoArtifact]
    /\ modules = <<>>
    /\ heap = [o \in Objs |-> FreeObj]
    /\ tasks = [t \in TaskIds |-> NoTask]
    /\ tracing = [t \in TaskIds |-> {}]
    /\ writes = {}
    /\ loads = [s \in Specifiers |-> 0]
    /\ transforms = [s \in Specifiers |-> 0]
    /\ calls = 0
    /\ edits = 0
    /\ restarts = 0
    /\ buffer = NoOutput
    /\ sidecar = NoSidecar
    /\ lookup = NoLookup
    /\ appSpecifier = NoApp
    /\ appModule = NoMod
    /\ hasher = NoHasher
    /\ remote = {}
    /\ unknown = {}
    /\ reload = FALSE
    /\ session = {}

NextKnot ==
    \/ (calls = 0 \/ Completed("/a")) /\ Compile("/a")
    \/ \E t \in TaskIds : StepFirst(t)

SpecKnot == InitKnot /\ [][NextKnot]_vars

\* ------------------------------------------------- development (watch) mode
\* the project /a -> /b -> /c: compile calls, source edits and the watch
\* handler
InitChain == Init /\ graph = ChainGraph

NextWatch ==
    \/ \E s \in Specifiers : Compile(s)
    \/ \E s \in Specifiers : WatchModify(s)
    \/ \E s \in Specifiers : WatchRemove(s)
    \/ \E t \in TaskIds : TaskStep(t)
    \/ \E o \in Objs : FlushWrite(o)
    \/ \E s \in Specifiers, v \in Contents \cup {NoFile} : EditSource(s, v)

SpecWatch == InitChain /\ [][NextWatch]_vars

\* the same project in watch mode, where /a is the /app.tsx of the project
InitApp ==
    /\ graph = ChainGraph
    /\ appSpecifier = "/a"
    /\ appModule = NoMod
    /\ resolvers = <<>>
    /\ compiler = 1
    /\ manifest = 1
    /\ invalidated = FALSE
    /\ src = [s \in Specifiers |-> 1]
    /\ disk = [s \in Specifiers |-> NoArtifact]
    /\ modules = <<>>
    /\ heap = [o \in Objs |-> FreeObj]
    /\ tasks = [t \in TaskIds |-> NoTask]
    /\ tracing = [t \in TaskIds |-> {}]
    /\ writes = {}
    /\ loads = [s \in Specifiers |-> 0]
    /\ transforms = [s \in Specifiers |-> 0]
    /\ calls = 0
    /\ edits = 0
    /\ restarts = 0
    /\ buffer = NoOutput
    /\ sidecar = NoSidecar
    /\ lookup = NoLookup
    /\ hasher = NoHasher
    /\ remote = {}
    /\ unknown = {}
    /\ reload = FALSE
    /\ session = {}

SpecApp == InitApp /\ [][NextWatch]_vars

\* ------------------------------------------------------- the propagation
\* a project built from its entry point /a, then a source edited or not and
\* the watch handler called for a source, one thing after the other
InitCascade ==
    /\ graph \in {ChainGraph, DiamondGraph, CycleGraph, KnotGraph}
    /\ resolvers = <<>>
    /\ compiler = 1
    /\ manifest = 1
    /\ invalidated = FALSE
    /\ src = [s \in Specifiers |-> 1]
    /\ disk = [s \in Specifiers |-> NoArtifact]
    /\ modules = <<>>
    /\ heap = [o \in Objs |-> FreeObj]
    /\ tasks = [t \in TaskIds |-> NoTask]
    /\ tracing = [t \in TaskIds |-> {}]
    /\ writes = {}
    /\ loads = [s \in Specifiers |-> 0]
    /\ transforms = [s \in Specifiers |-> 0]
    /\ calls = 0
    /\ edits = 0
    /\ restarts = 0
    /\ buffer = NoOutput
    /\ sidecar = NoSidecar
    /\ lookup = NoLookup
    /\ appSpecifier = NoApp
    /\ appModule = NoMod
    /\ hasher = NoHasher
    /\ remote = {}
    /\ unknown = {}
    /\ reload = FALSE
    /\ session = {}

StepCascade(t) ==
    \/ AwaitReady(t)
    \/ ReadMeta(t)
    \/ LoadOk(t)
    \/ TransformOk(t)
    \/ CacheWrite(t)
    \/ Join(t)
    \/ CacheAgain(t)
    \/ CascadeStep(t)

NextCascade ==
    \/ calls = 0 /\ Compile("/a")
    \/ \E s \in Specifiers, v \in 1..MaxVer :
          Settled /\ writes = {} /\ calls = 1 /\ EditSource(s, v)
    \/ \E s \in Specifiers : Settled /\ writes = {} /\ calls = 1 /\ WatchModify(s)
    \/ \E t \in TaskIds : StepCascade(t)
    \/ \E o \in Objs : FlushWrite(o)

\* every pending #replaceDepHash of a propagation and every pending write
\* completes
SpecCascade ==
    /\ InitCascade /\ [][NextCascade]_vars
    /\ WF_vars(\E k \in TaskIds : CascadeStep(k))
    /\ WF_vars(\E o \in Objs : FlushWrite(o))

\* ------------------------------------------------- unsupported sources
\* the first build of the projects /a -> /b -> /c and /a -> /b, /c; /b -> /c
\* in which /b or /c is a file of no supported type
InitUnknown ==
    /\ graph \in {ChainGraph, DiamondGraph}
    /\ unknown \in {{"/b"}, {"/c"}}
    /\ remote = {}
    /\ reload = FALSE
    /\ session = {}
    /\ resolvers = <<>>
    /\ compiler = 1
    /\ manifest = 1
    /\ invalidated = FALSE
    /\ src = [s \in Specifiers |-> 1]
    /\ disk = [s \in Specifiers |-> NoArtifact]
    /\ modules = <<>>
    /\ heap = [o \in Objs |-> FreeObj]
    /\ tasks = [t \in TaskIds |-> NoTask]
    /\ tracing = [t \in TaskIds |-> {}]
    /\ writes = {}
    /\ loads = [s \in Specifiers |-> 0]
    /\ transforms = [s \in Specifiers |-> 0]
    /\ calls = 0
    /\ edits = 0
    /\ restarts = 0
    /\ buffer = NoOutput
    /\ sidecar = NoSidecar
    /\ lookup = NoLookup
    /\ appSpecifier = NoApp
    /\ appModule = NoMod
    /\ hasher = NoHasher

SpecUnknown == InitUnknown /\ [][NextFirst]_vars

\* ------------------------------------------------ lookupDeps, call by call
\* a callback that never returns false
NeverFalse(dep, stop) == FALSE

\* callback(dep) === false, for the callback that returns false at the
\* dependency on the specifier stop ("": at none)
CallbackFalse(dep, stop) == dep.specifier = stop

\* a __tracing set that each recursive call copies
CopiedTracing(before, after) == [after EXCEPT !.tr = before.tr]

\* __tracing is one Set, shared by the recursive calls: what a call has added
\* to it is there for the calls that follow it
SharedTracing(before, after) == after

RECURSIVE LookupUntil(_, _, _, _, _), CallbackEach(_, _, _, _, _), RecurseEach(_, _, _, _, _, _)

\* for (const dep of mod.deps) { if (callback(dep) === false) return false }:
\* acc.visits are the invocations of the callback, each with the module whose
\* deps hold the record and the index of the record
CallbackEach(s, deps, i, stop, acc) ==
    IF i > Len(deps) THEN acc
    ELSE LET acc1 == [acc EXCEPT !.visits = Append(@, [owner |-> s, index |-> i,
                                                       specifier |-> deps[i].specifier])]
         IN IF CallbackFalse(deps[i], stop)
            THEN [acc1 EXCEPT !.returned = "false"]
            ELSE CallbackEach(s, deps, i + 1, stop, acc1)

\* for (const { specifier } of mod.deps) { if (this.lookupDeps(...) === false)
\* return false }
RecurseEach(reg, hp, deps, i, stop, acc) ==
    IF i > Len(deps) THEN acc
    ELSE LET acc1 == SharedTracing(acc, LookupUntil(reg, hp, deps[i].specifier, stop, acc))
         IN IF acc1.returned = "false" THEN acc1
            ELSE RecurseEach(reg, hp, deps, i + 1, stop, acc1)

\* lookupDeps(specifier, callback, __tracing)
LookupUntil(reg, hp, s, stop, acc) ==
    LET mod == GetModule(reg, s) IN
    IF mod = NoMod THEN acc
    ELSE IF s \in acc.tr THEN acc
    ELSE LET acc1 == CallbackEach(s, hp[mod].deps, 1, stop,
                                  [acc EXCEPT !.tr = @ \cup {s}])
         IN IF acc1.returned = "false" THEN acc1
            ELSE RecurseEach(reg, hp, hp[mod].deps, 1, stop, acc1)

\* the registries in which the modules of R are registered, in the order of
\* their compilation, each with the deps of its source and no compiled bytes
\* in memory
Order == <<"/a", "/b", "/c">>

RegistryOf(R) ==
    LET keys == SelectSeq(Order, LAMBDA s : s \in R)
    IN [i \in 1..Len(keys) |-> [key |-> keys[i], obj |-> i]]

HeapOf(g, R) ==
    LET reg == RegistryOf(R)
    IN [o \in Objs |->
          IF o \in 1..Len(reg)
          THEN [NewModule(reg[o].key) EXCEPT !.deps = DepsOf(g, reg[o].key),
                                             !.sourceHash = SourceHashOf(1),
                                             !.ready = TRUE]
          ELSE FreeObj]

InitLookup ==
    /\ graph \in {ChainGraph, CycleGraph, DiamondGraph, KnotGraph}
    /\ unknown = {}
    /\ remote = {}
    /\ reload = FALSE
    /\ session = {}
    /\ resolvers = <<>>
    /\ compiler = 1
    /\ manifest = 1
    /\ invalidated = FALSE
    /\ src = [s \in Specifiers |-> 1]
    /\ disk = [s \in Specifiers |-> NoArtifact]
    /\ \E R \in SUBSET Specifiers :
          /\ modules = RegistryOf(R)
          /\ heap = HeapOf(graph, R)
    /\ tasks = [t \in TaskIds |-> NoTask]
    /\ tracing = [t \in TaskIds |-> {}]
    /\ writes = {}
    /\ loads = [s \in Specifiers |-> 0]
    /\ transforms = [s \in Specifiers |-> 0]
    /\ calls = 0
    /\ edits = 0
    /\ restarts = 0
    /\ buffer = NoOutput
    /\ sidecar = NoSidecar
    /\ lookup = NoLookup
    /\ appSpecifier = NoApp
    /\ appModule = NoMod
    /\ hasher = NoHasher

\* a call of lookupDeps from outside, with a new __tracing set
LookupCall(s, stop) ==
    /\ lookup' =
          LET r == LookupUntil(modules, heap, s, stop,
                               [visits |-> <<>>, tr |-> {}, returned |-> "undefined"])
          IN [start |-> s, stop |-> stop, visits |-> r.visits, returned |-> r.returned]
    /\ UNCHANGED <<appSpecifier, appModule, hasher, buffer, sidecar, remote, unknown, reload, session, graph, resolvers,
                   compiler, manifest, invalidated, src, disk, modules, heap, tasks, tracing,
                   writes, loads, transforms, calls, edits, restarts>>

\* mod.sourceHash = sourceHash: the module o takes the hash of another content
Rehash(o, v) ==
    /\ GetModule(modules, heap[o].specifier) = o
    /\ heap[o].sourceHash # SourceHashOf(v)
    /\ heap' = [heap EXCEPT ![o].sourceHash = SourceHashOf(v)]
    /\ UNCHANGED <<appSpecifier, appModule, lookup, hasher, buffer, sidecar, remote, unknown, reload, session, graph,
                   resolvers, compiler, manifest, invalidated, src, disk, modules, tasks,
                   tracing, writes, loads, transforms, calls, edits, restarts>>

NextLookup ==
    \/ \E s \in Specifiers, stop \in Specifiers \cup {""} : LookupCall(s, stop)
    \/ \E o \in Objs, v \in 1..MaxVer : Rehash(o, v)

SpecLookup == InitLookup /\ [][NextLookup]_vars

\* --------------------------------------- sourceHash and the plugin checksums
\* config.plugins: each plugin has a name, a checksum (NoChecksum: it has no
\* checksum function) and the listeners its setup registers for the
\* specifier under examination (onLoad, onTransform)
NoChecksum == 0
PluginNames == {"p", "q"}
Plugins ==
    [name : PluginNames, checksum : {NoChecksum, 1, 2}, load : BOOLEAN, transform : BOOLEAN]

\* the configurations: at most one plugin of each name
Configs ==
    {<<>>} \cup {<<p>> : p \in Plugins}
           \cup {<<p, q>> : <<p, q>> \in {pq \in Plugins \X Plugins : pq[1].name # pq[2].name}}

\* plugins.add(pluginId): a Set keeps the order of the first insertions
SetAdd(ids, id) == IF \E i \in DOMAIN ids : ids[i] = id THEN ids ELSE Append(ids, id)

RECURSIVE AddTransformers(_, _, _)
\* for (const { pluginId, test } of this.#transformListeners) plugins.add(pluginId)
AddTransformers(ps, i, ids) ==
    IF i > Len(ps) THEN ids
    ELSE AddTransformers(ps, i + 1, IF ps[i].transform THEN SetAdd(ids, i) ELSE ids)

\* const loader = this.#loadListeners.find(...); plugins.add(loader.pluginId);
\* then the transform listeners: the pluginIds in the order of plugins.forEach
MatchedIds(ps) ==
    LET L == {i \in DOMAIN ps : ps[i].load}
    IN AddTransformers(ps, 1, IF L = {} THEN <<>> ELSE <<Min(L)>>)

RECURSIVE Checksummed(_, _, _)
\* plugins.forEach: if (p.checksum) { hasher.update(p.name); hasher.update(p.checksum()) }
Checksummed(ps, ids, i) ==
    IF i > Len(ids) THEN <<>>
    ELSE (IF ps[ids[i]].checksum # NoChecksum
          THEN <<ps[ids[i]].name, ps[ids[i]].checksum>>
          ELSE <<>>) \o Checksummed(ps, ids, i + 1)

\* hasher.update(src.code) ... hasher.toString() with the plugins ps
SourceHashWith(ps, code) == SourceHashOf(code) \o Checksummed(ps, MatchedIds(ps), 1)

InitHasher ==
    /\ Init
    /\ graph = ChainGraph

\* a process with the configuration ps computes the sourceHash of the source
Configure(ps) ==
    /\ hasher' = [plugins |-> ps, sourceHash |-> SourceHashWith(ps, 1)]
    /\ UNCHANGED <<appSpecifier, appModule, lookup, buffer, sidecar, remote, unknown, reload, session, graph, resolvers,
                   compiler, manifest, invalidated, src, disk, modules, heap, tasks, tracing,
                   writes, loads, transforms, calls, edits, restarts>>

NextHasher == \E ps \in Configs \ {<<>>} : Configure(ps)

SpecHasher == InitHasher /\ [][NextHasher]_vars

\* ------------------------------------------- #replaceDepHash, byte by byte
\* hash.substr(0, 6), jsBuffer.slice(hashLoc, hashLoc + 6)
MarkerLen == 6
\* the length of an md5 digest in hex
HashLen == 32
HexDigits == {1, 2}
\* the placeholder digit of the markers in the transform's output and a byte
\* of code (the import paths are the bytes 8 and 9)
Zero == 0
CodeByte == 7

Least(a, b) == IF a <= b THEN a ELSE b
Greatest(a, b) == IF a >= b THEN a ELSE b

\* the digests computeModuleHash may return
Hashes ==
    {[i \in 1..HashLen |-> IF i <= k THEN x ELSE y] :
        x \in HexDigits, y \in HexDigits, k \in {0, MarkerLen - 1, MarkerLen, MarkerLen + 1}}

\* String.prototype.substr(from, length)
Substr(s, from, length) == SubSeq(s, from + 1, Least(from + length, Len(s)))

\* Uint8Array.prototype.slice(start, end)
Slice(b, start, end) == SubSeq(b, Least(start, Len(b)) + 1, Least(end, Len(b)))

\* equals(a, b) of std/bytes
Equals(a, b) == a = b

\* copy(src, dst, off) of std/bytes: writes into dst from offset off, as many
\* bytes as fit
Copy(source, dst, off) ==
    LET o == Greatest(0, Least(off, Len(dst)))
        fit == Least(Len(source), Len(dst) - o)
    IN [i \in 1..Len(dst) |-> IF i > o /\ i <= o + fit THEN source[i - o] ELSE dst[i]]

\* indexOf(source, pattern) of std/bytes: the offset of the first occurrence, or -1
IndexOf(source, pat) ==
    LET I == {i \in 0..(Len(source) - Len(pat)) : SubSeq(source, i + 1, i + Len(pat)) = pat}
    IN IF I = {} THEN -1 ELSE Min(I)

\* a marker of the whole digest instead of its first six digits
HashDataWhole(hash) == hash

\* encoder.encode(hash.substr(0, 6))
HashData(hash) == Substr(hash, 0, MarkerLen)

\* #replaceDepHash(module, hashLoc, hash) on the bytes of module.jsBuffer
ReplaceDepHash(jsBuffer, hashLoc, hash) ==
    IF jsBuffer # <<>> /\ ~Equals(HashData(hash), Slice(jsBuffer, hashLoc, hashLoc + MarkerLen))
    THEN Copy(HashData(hash), jsBuffer, hashLoc)
    ELSE jsBuffer

\* `resolved` of a dependency: the import path as the transform writes it into
\* the output, ending in the six digits of the marker
Resolved(path) == <<path>> \o [i \in 1..MarkerLen |-> Zero]

\* dep.hashLoc of #transpileModule (-1: no hashLoc recorded)
HashLocOf(jsBuffer, resolved) ==
    LET idx == IndexOf(jsBuffer, resolved) IN
    IF idx > 0 THEN idx + Len(resolved) - MarkerLen ELSE -1

\* the outputs of the transform for a module with one import or two
Outputs ==
    {[bytes |-> <<CodeByte>> \o Resolved(8) \o <<CodeByte>>, resolved |-> <<Resolved(8)>>],
     [bytes |-> <<CodeByte>> \o Resolved(8) \o Resolved(9),
      resolved |-> <<Resolved(8), Resolved(9)>>],
     [bytes |-> <<CodeByte>> \o Resolved(9) \o <<CodeByte, CodeByte>> \o Resolved(8) \o <<CodeByte>>,
      resolved |-> <<Resolved(8), Resolved(9)>>]}

\* patches of one compiled output
MaxPatches == 3

InitPatch ==
    /\ Init
    /\ graph = ChainGraph

\* module.jsBuffer = encoder.encode(jsCode) and the hashLoc of every dependency
TransformOutput(out) ==
    /\ buffer = NoOutput
    /\ buffer' = [output |-> out.bytes, jsBuffer |-> out.bytes,
                  hashLocs |-> [j \in 1..Len(out.resolved) |-> HashLocOf(out.bytes, out.resolved[j])],
                  n |-> 0]
    /\ UNCHANGED <<appSpecifier, appModule, lookup, hasher, sidecar, remote, unknown, reload, session, graph, resolvers, compiler, manifest, invalidated, src, disk, modules,
                   heap, tasks, tracing, writes, loads, transforms, calls, edits, restarts>>

\* a #replaceDepHash call for the j-th dependency with the digest hash
Patch(j, hash) ==
    /\ buffer # NoOutput
    /\ buffer.n < MaxPatches
    /\ j \in DOMAIN buffer.hashLocs
    /\ buffer.hashLocs[j] # -1
    /\ buffer' = [buffer EXCEPT !.jsBuffer = ReplaceDepHash(@, buffer.hashLocs[j], hash),
                                !.n = @ + 1]
    /\ UNCHANGED <<appSpecifier, appModule, lookup, hasher, sidecar, remote, unknown, reload, session, graph, resolvers, compiler, manifest, invalidated, src, disk, modules,
                   heap, tasks, tracing, writes, loads, transforms, calls, edits, restarts>>

NextPatch ==
    \/ \E out \in Outputs : TransformOutput(out)
    \/ \E j \in 1..2, hash \in Hashes : Patch(j, hash)

SpecPatch == InitPatch /\ [][NextPatch]_vars

\* ------------------------------------------------- the metadata record
\* the fields of a Module object in the order in which the code sets them.
\* Values are written as their JSON text; Undefined is the value of a field
\* that is not set or is set to undefined
Undefined == "undefined"

ModuleKeys ==
    <<"specifier", "deps", "sourceHash", "httpExternal", "jsFile", "ready", "isStyle",
      "ssrPropsFn", "ssgPathsFn", "jsxStaticClassNames", "denoHooks", "jsBuffer">>

DepKeys == <<"specifier", "isDynamic", "hashLoc">>

KeySet(keys) == {keys[i] : i \in DOMAIN keys}

\* obj[k] in JavaScript: undefined for a property the object does not have
ReadKey(obj, k) == IF k \in DOMAIN obj THEN obj[k] ELSE Undefined

\* const dep = { specifier }; dep.isDynamic = true; dep.hashLoc = ...
Dep(s, isDynamic, hashLoc) ==
    [k \in KeySet(DepKeys) |->
        IF k = "specifier" THEN s ELSE IF k = "isDynamic" THEN isDynamic ELSE hashLoc]

DepLists ==
    {<<>>,
     <<Dep("/b", Undefined, "9")>>,
     <<Dep("/b", "true", Undefined), Dep("/c", Undefined, "12")>>}

\* mod = { specifier, deps: [], sourceHash: '', httpExternal, jsFile, ready }
ModLiteral(s, httpExternal) ==
    [k \in KeySet(ModuleKeys) |->
        IF k = "specifier" THEN s
        ELSE IF k = "deps" THEN <<>>
        ELSE IF k = "sourceHash" THEN ""
        ELSE IF k = "httpExternal" THEN httpExternal
        ELSE IF k = "jsFile" THEN "file.js"
        ELSE IF k = "ready" THEN "promise"
        ELSE Undefined]

\* a merge in which the properties of the target win
AssignKeep(target, source) ==
    [k \in DOMAIN target \cup DOMAIN source |->
        IF k \in DOMAIN target THEN target[k] ELSE source[k]]

\* Object.assign(target, source)
Assign(target, source) ==
    [k \in DOMAIN target \cup DOMAIN source |->
        IF k \in DOMAIN source THEN source[k] ELSE target[k]]

\* const { jsBuffer, jsFile, ready, ...rest } = module
RestOf(module) ==
    [k \in DOMAIN module \ {"jsBuffer", "jsFile", "ready"} |-> module[k]]

\* JSON.stringify of one dependency: the properties that are not undefined, as
\* pairs of a key and a value, in the order of the keys
StringifyDep(dep) ==
    LET keys == SelectSeq(DepKeys, LAMBDA k : k \in DOMAIN dep /\ dep[k] # Undefined)
    IN [i \in 1..Len(keys) |-> <<keys[i], dep[keys[i]]>>]

\* JSON.stringify({ ...rest }): a property whose value is undefined is left out
Stringify(obj) ==
    LET keys == SelectSeq(ModuleKeys,
                          LAMBDA k : k \in DOMAIN obj /\ (k = "deps" \/ obj[k] # Undefined))
    IN [i \in 1..Len(keys) |->
          <<keys[i],
            IF keys[i] = "deps"
            THEN [j \in 1..Len(obj.deps) |-> StringifyDep(obj.deps[j])]
            ELSE obj[keys[i]]>>]

\* the object of a sequence of pairs
ParsePairs(pairs) ==
    [k \in {pairs[i][1] : i \in DOMAIN pairs} |->
        pairs[CHOOSE i \in DOMAIN pairs : pairs[i][1] = k][2]]

\* JSON.parse of the text of a metadata file
Parse(text) ==
    LET obj == ParsePairs(text)
    IN [k \in DOMAIN obj |->
          IF k = "deps" THEN [j \in 1..Len(obj[k]) |-> ParsePairs(obj[k][j])] ELSE obj[k]]

\* meta.specifier === specifier && isFilledString(meta.sourceHash) && isArray(meta.deps)
ValidParsed(meta, s) ==
    /\ ReadKey(meta, "specifier") = s
    /\ ReadKey(meta, "sourceHash") \notin {Undefined, ""}
    /\ "deps" \in DOMAIN meta

InitMeta ==
    /\ Init
    /\ graph = ChainGraph

\* a module after #initModule and #transpileModule have filled it in:
\* mod.sourceHash = sourceHash; module.isStyle = true;
\* Object.assign(module, { deps, ssrPropsFn, ssgPathsFn, jsxStaticClassNames });
\* module.denoHooks = ...; module.jsBuffer = ...; module.deps = ...
Transpiled(httpExternal, isStyle, denoHooks, ssrPropsFn, ssgPathsFn, classNames, deps) ==
    /\ sidecar.phase = "none"
    /\ sidecar' =
          [sidecar EXCEPT
             !.phase = "built",
             !.module =
                [k \in KeySet(ModuleKeys) |->
                    IF k = "sourceHash" THEN "h1"
                    ELSE IF k = "isStyle" THEN isStyle
                    ELSE IF k = "deps" THEN deps
                    ELSE IF k = "ssrPropsFn" THEN ssrPropsFn
                    ELSE IF k = "ssgPathsFn" THEN ssgPathsFn
                    ELSE IF k = "jsxStaticClassNames" THEN classNames
                    ELSE IF k = "denoHooks" THEN denoHooks
                    ELSE IF k = "jsBuffer" THEN "bytes"
                    ELSE ModLiteral("/a", httpExternal)[k]]]
    /\ UNCHANGED <<appSpecifier, appModule, lookup, hasher, buffer, remote, unknown, reload, session, graph, resolvers, compiler, manifest, invalidated, src, disk, modules,
                   heap, tasks, tracing, writes, loads, transforms, calls, edits, restarts>>

\* #cacheModule writes the metadata file
CacheModule ==
    /\ sidecar.phase = "built"
    /\ sidecar.module["jsBuffer"] # Undefined
    /\ sidecar' = [sidecar EXCEPT !.phase = "cached",
                                  !.file = Stringify(RestOf(sidecar.module))]
    /\ UNCHANGED <<appSpecifier, appModule, lookup, hasher, buffer, remote, unknown, reload, session, graph, resolvers, compiler, manifest, invalidated, src, disk, modules,
                   heap, tasks, tracing, writes, loads, transforms, calls, edits, restarts>>

\* #initModule of a process that has no module yet reads the metadata file
\* and merges it into the object it has created
MergeMeta(httpExternal) ==
    /\ sidecar.phase = "cached"
    /\ sidecar' =
          [sidecar EXCEPT
             !.phase = "restored",
             !.option = httpExternal,
             !.restored =
                IF ValidParsed(Parse(sidecar.file), "/a")
                THEN Assign(ModLiteral("/a", httpExternal), Parse(sidecar.file))
                ELSE ModLiteral("/a", httpExternal)]
    /\ UNCHANGED <<appSpecifier, appModule, lookup, hasher, buffer, remote, unknown, reload, session, graph, resolvers, compiler, manifest, invalidated, src, disk, modules,
                   heap, tasks, tracing, writes, loads, transforms, calls, edits, restarts>>

\* httpExternal?: boolean
Options == {Undefined, "true", "false"}

NextMeta ==
    \/ \E httpExternal \in Options, isStyle \in {Undefined, "true"},
          denoHooks \in {Undefined, "[1]"}, ssrPropsFn \in {Undefined, "f"},
          ssgPathsFn \in {Undefined, "true"}, classNames \in {Undefined, "[c]"},
          deps \in DepLists :
            Transpiled(httpExternal, isStyle, denoHooks, ssrPropsFn, ssgPathsFn, classNames, deps)
    \/ CacheModule
    \/ \E httpExternal \in Options : MergeMeta(httpExternal)

SpecMeta == InitMeta /\ [][NextMeta]_vars

\* ---------------------------------------------------- onResolve callbacks
\* the lists of callbacks the plugins have registered with onResolve: a test,
\* the specifier the callback returns ("" for none) and its external flag
ExternalC == [test |-> {"/c"}, specifier |-> "", external |-> TRUE]
LocalB == [test |-> {"/b"}, specifier |-> "", external |-> FALSE]
ExternalBC == [test |-> {"/b", "/c"}, specifier |-> "", external |-> TRUE]
RenameB == [test |-> {"/b"}, specifier |-> "/c", external |-> TRUE]
LocalRenameB == [test |-> {"/b"}, specifier |-> "/c", external |-> FALSE]

ResolverLists ==
    {<<ExternalC>>, <<LocalB, ExternalBC>>, <<RenameB>>, <<LocalRenameB, ExternalBC>>}

\* the first build of the projects /a -> /b -> /c and /a -> /b, /c; /b -> /c
\* with callbacks that make some of the specifiers external
InitExternal ==
    /\ graph \in {ChainGraph, DiamondGraph}
    /\ resolvers \in ResolverLists
    /\ compiler = 1
    /\ manifest = 1
    /\ invalidated = FALSE
    /\ src = [s \in Specifiers |-> 1]
    /\ disk = [s \in Specifiers |-> NoArtifact]
    /\ modules = <<>>
    /\ heap = [o \in Objs |-> FreeObj]
    /\ tasks = [t \in TaskIds |-> NoTask]
    /\ tracing = [t \in TaskIds |-> {}]
    /\ writes = {}
    /\ loads = [s \in Specifiers |-> 0]
    /\ transforms = [s \in Specifiers |-> 0]
    /\ calls = 0
    /\ edits = 0
    /\ restarts = 0
    /\ buffer = NoOutput
    /\ sidecar = NoSidecar
    /\ lookup = NoLookup
    /\ appSpecifier = NoApp
    /\ appModule = NoMod
    /\ hasher = NoHasher
    /\ remote = {}
    /\ unknown = {}
    /\ reload = FALSE
    /\ session = {}

SpecExternal == InitExternal /\ [][NextFirst]_vars

\* ------------------------------------------------------------- restarts
\* the project /a -> /b -> /c: compile calls and restarts of the process over
\* the build directory it has written
StepRestart(t) ==
    \/ AwaitReady(t)
    \/ ReadMeta(t)
    \/ LoadOk(t)
    \/ TransformOk(t)
    \/ CacheWrite(t)
    \/ Join(t)
    \/ CacheAgain(t)
    \/ PatchIO(t)

NextRestart ==
    \/ \E s \in Specifiers : Compile(s)
    \/ \E t \in TaskIds : StepRestart(t)
    \/ \E c \in Checksums : Restart(c)

SpecRestart == InitChain /\ [][NextRestart]_vars

\* ------------------------------------- remote modules, damaged artifacts
\* an output file is removed from the build directory while the process is
\* starting again (one damage to the build directory at most)
Intact ==
    \A s \in Specifiers :
        \/ disk[s] = NoArtifact
        \/ disk[s].js # NoBuffer /\ disk[s].meta # NoMeta /\ Parses(disk[s].meta)
                                 /\ ValidMeta(disk[s].meta, s)

OutputLost(s) ==
    /\ restarts > 0
    /\ modules = <<>>
    /\ Intact
    /\ disk[s] # NoArtifact
    /\ disk' = [disk EXCEPT ![s].js = NoBuffer]
    /\ UNCHANGED <<appSpecifier, appModule, lookup, hasher, buffer, sidecar, remote, unknown, reload, session, graph, resolvers, compiler,
                   manifest, invalidated, src, modules, heap, tasks, tracing, writes, loads,
                   transforms, calls, edits, restarts>>

\* what a damaged metadata file holds in place of meta
Damaged(meta, kind) ==
    IF kind = "specifier" THEN [meta EXCEPT !.specifier = ""]
    ELSE IF kind = "sourceHash" THEN [meta EXCEPT !.sourceHash = EmptyHash]
    ELSE IF kind = "deps" THEN [meta EXCEPT !.shape = "deps"]
    ELSE [NoMeta EXCEPT !.shape = "text"]

DamageKinds == {"specifier", "sourceHash", "deps", "text"}

\* a metadata file is overwritten while the process is starting again
SidecarDamaged(s, kind) ==
    /\ restarts > 0
    /\ modules = <<>>
    /\ Intact
    /\ disk[s] # NoArtifact
    /\ disk' = [disk EXCEPT ![s].meta = Damaged(@, kind)]
    /\ UNCHANGED <<appSpecifier, appModule, lookup, hasher, buffer, sidecar, remote, unknown, reload, session, graph, resolvers, compiler,
                   manifest, invalidated, src, modules, heap, tasks, tracing, writes, loads,
                   transforms, calls, edits, restarts>>

\* the project /a -> /b -> /c in which /c, or /b and /c, are modules of
\* another host, with and without the reload of the sources
InitRemote ==
    /\ graph = ChainGraph
    /\ remote \in {{"/c"}, {"/b", "/c"}}
    /\ reload \in BOOLEAN
    /\ unknown = {}
    /\ session = {}
    /\ resolvers = <<>>
    /\ compiler = 1
    /\ manifest = 1
    /\ invalidated = FALSE
    /\ src = [s \in Specifiers |-> 1]
    /\ disk = [s \in Specifiers |-> NoArtifact]
    /\ modules = <<>>
    /\ heap = [o \in Objs |-> FreeObj]
    /\ tasks = [t \in TaskIds |-> NoTask]
    /\ tracing = [t \in TaskIds |-> {}]
    /\ writes = {}
    /\ loads = [s \in Specifiers |-> 0]
    /\ transforms = [s \in Specifiers |-> 0]
    /\ calls = 0
    /\ edits = 0
    /\ restarts = 0
    /\ buffer = NoOutput
    /\ sidecar = NoSidecar
    /\ lookup = NoLookup
    /\ appSpecifier = NoApp
    /\ appModule = NoMod
    /\ hasher = NoHasher

NextRemote ==
    \/ \E s \in Specifiers : Compile(s)
    \/ \E t \in TaskIds : StepRestart(t)
    \/ Restart(1)
    \/ \E s \in Specifiers : OutputLost(s)
    \/ \E s \in Specifiers, kind \in DamageKinds : SidecarDamaged(s, kind)

SpecRemote == InitRemote /\ [][NextRemote]_vars

\* ================================================================ claims
Roots == {t \in TaskIds : tasks[t].kind = "compile"}

\* the compile calls for s that have returned a module
Returned(s) ==
    {t \in Roots : tasks[t].spec = s /\ tasks[t].pc = "done" /\ ~tasks[t].err}

\* the task is inside #transpileModule for the module it has created, between
\* the call of the transform and the end of the write of the artifact
Transpiling(t) ==
    /\ tasks[t].kind \in {"compile", "dep"}
    /\ tasks[t].pc \in {"transform", "cache"}

C2_ReadyAfterPersist ==
    \A t \in TaskIds : Transpiling(t) => ~heap[tasks[t].mod].ready

\* a call that found the module registered and waited on its ready
Waited(t) ==
    /\ t \in Roots
    /\ tasks[t].pc = "done"
    /\ ~tasks[t].err
    /\ ~tasks[t].force
    /\ ~tasks[t].isNew

\* sourceHash, deps and jsBuffer as the module's own attempt leaves them
Populated(o, s) ==
    /\ heap[o].sourceHash = SourceHashOf(src[s])
    /\ heap[o].deps = DepsOf(graph, s)
    /\ heap[o].jsBuffer # NoBuffer

\* C3: a call that waited on an in-flight module's ready returns a module
\* with sourceHash, deps and jsBuffer populated.
C3_WaiterSeesPopulated ==
    \A t \in TaskIds : Waited(t) => Populated(tasks[t].mod, tasks[t].spec)

InCycle == \E t \in Roots : tasks[t].spec \in {"/a", "/b"}

\* C6: with the import cycle /a -> /b -> /a, the compile calls terminate (the
\* process settles for good), no module is transformed twice, and once a call
\* into the cycle has settled /a and /b have been transformed exactly once each.
C6_CycleSafety ==
    /\ [](\A s \in Specifiers : transforms[s] <= 1)
    /\ <>[]Settled
    /\ [](Settled /\ InCycle => transforms["/a"] = 1 /\ transforms["/b"] = 1)

\* compile("/a") on the cycle has returned
C6_Witness ==
    /\ graph = CycleGraph
    /\ Returned("/a") # {}
    /\ Settled
    /\ transforms["/a"] = 1
    /\ transforms["/b"] = 1
    /\ heap[GetModule(modules, "/a")].jsBuffer[2]
         = Marker(ComputeModuleHash(modules, heap, GetModule(modules, "/b")))

\* sourceHash, jsBuffer and transform count of the registered module of s stay
SameModule(s) ==
    /\ GetModule(modules', s) = GetModule(modules, s)
    /\ heap'[GetModule(modules, s)].sourceHash = heap[GetModule(modules, s)].sourceHash
    /\ heap'[GetModule(modules, s)].jsBuffer = heap[GetModule(modules, s)].jsBuffer
    /\ transforms'[s] = transforms[s]

\* C7: once compile("/a") has completed, no step of a further compile("/a")
\* call (no source has changed) invokes the transform on /a or changes /a's
\* sourceHash or jsBuffer.
C7_Idempotent == [][Completed("/a") => SameModule("/a")]_vars

\* the watch handler's compile call of t, made for a changed source while
\* nothing else was in flight, has returned and the propagation it started has
\* run to its end
Propagated(t) ==
    /\ t \in Roots
    /\ tasks[t].watch
    /\ tasks[t].quiet
    /\ tasks[t].pc = "done"
    /\ tasks[t].casc = "done"
    /\ ~tasks[t].err
    /\ GetModule(modules, tasks[t].spec) = tasks[t].mod
    /\ heap[tasks[t].mod].sourceHash = SourceHashOf(src[tasks[t].spec])
    /\ heap[tasks[t].mod].sourceHash # heap[tasks[t].prev].sourceHash

\* the registered modules with a dependency on s that has a hashLoc
Importers(s) ==
    {modules[i].obj : i \in {j \in 1..Len(modules) : MatchLoc(heap, modules[j].obj, s) # 0}}

\* the marker of o for its import of s, in memory and in the persisted output
MarkerInMemory(o, s) == heap[o].jsBuffer[MatchLoc(heap, o, s)]

MarkerOnDisk(o, s) == disk[heap[o].specifier].js[MatchLoc(heap, o, s)]

NewHash(t) == Marker(ComputeModuleHash(modules, heap, tasks[t].mod))

\* C4: when the propagation for a changed module B has completed and nothing
\* else is in flight, every registered importer A of B carries B's new
\* aggregate hash at its hashLoc, in its in-memory buffer and in its persisted
\* output.
C4_CascadeResult ==
    \A t \in TaskIds : Propagated(t) /\ Settled =>
        \A o \in Importers(tasks[t].spec) :
            /\ heap[o].jsBuffer # NoBuffer
            /\ MarkerInMemory(o, tasks[t].spec) = NewHash(t)
            /\ disk[heap[o].specifier].js # NoBuffer
            /\ MarkerOnDisk(o, tasks[t].spec) = NewHash(t)

\* sourceHash and deps of every registered module stay, and so do the counts
\* of loader and transform invocations
Frame ==
    /\ loads' = loads
    /\ transforms' = transforms
    /\ modules' = modules
    /\ \A i \in 1..Len(modules) :
        /\ heap'[modules[i].obj].sourceHash = heap[modules[i].obj].sourceHash
        /\ heap'[modules[i].obj].deps = heap[modules[i].obj].deps

\* C5: a step of the propagation (a patch with the scan that follows it, or
\* the write it has started) invokes neither the loader nor the transform and
\* changes no registered module's sourceHash or deps.
C5_CascadeFrame ==
    [][(\/ \E k \in TaskIds : CascadeStep(k)
        \/ \E o \in Objs : FlushWrite(o)) => Frame]_vars

\* a propagation has patched an importer that was transformed once only
C5_Witness ==
    \E t \in TaskIds :
        /\ Propagated(t)
        /\ \E o \in Importers(tasks[t].spec) :
            /\ MarkerInMemory(o, tasks[t].spec) = NewHash(t)
            /\ transforms[heap[o].specifier] = 1
            /\ loads[heap[o].specifier] = 1

\* the build directory holds valid metadata and an output file for s, written
\* for the current source of s
Cached(s) ==
    /\ disk[s].meta.specifier = s
    /\ disk[s].js # NoBuffer
    /\ disk[s].meta.sourceHash = SourceHashOf(src[s])

\* C8: on a registry without s, with valid metadata and output for the
\* unchanged source of s in the build directory, compile merges sourceHash and
\* deps from the metadata, the load that follows does not invoke the transform,
\* and the first use of the absent jsBuffer reads it from the output file.
C8_CacheRestore ==
    [][\A t \in TaskIds :
        /\ ReadMeta(t) /\ Cached(tasks[t].spec) =>
              /\ heap'[tasks[t].mod].sourceHash = disk[tasks[t].spec].meta.sourceHash
              /\ heap'[tasks[t].mod].deps = disk[tasks[t].spec].meta.deps
              /\ disk' = disk
        /\ LoadOk(t) /\ Cached(tasks[t].spec) /\ ~tasks[t].force =>
              /\ transforms' = transforms
              /\ tasks'[t].pc # "transform"
              /\ heap'[tasks[t].mod].sourceHash = disk[tasks[t].spec].meta.sourceHash
              /\ heap'[tasks[t].mod].deps = disk[tasks[t].spec].meta.deps
        /\ PatchIO(t) /\ Cached(heap[tasks[t].tgt].specifier) =>
              /\ heap'[tasks[t].tgt].jsBuffer # NoBuffer
              /\ heap'[tasks[t].tgt].jsBuffer[1] = disk[heap[tasks[t].tgt].specifier].js[1]
      ]_vars

\* after a restart compile("/a") has returned with no transform invoked and
\* /a's buffer read back from the build directory
C8_Witness ==
    /\ restarts = 1
    /\ Returned("/a") # {}
    /\ \A s \in Specifiers : transforms[s] = 0
    /\ heap[GetModule(modules, "/a")].sourceHash = SourceHashOf(src["/a"])
    /\ heap[GetModule(modules, "/a")].deps = DepsOf(graph, "/a")
    /\ heap[GetModule(modules, "/a")].jsBuffer = disk["/a"].js
    /\ disk["/a"].js # NoBuffer

\* a compile call for s has ended with the load of its new module failed
FailedNew(s) ==
    \E r \in Roots : tasks[r].spec = s /\ tasks[r].err /\ tasks[r].isNew

\* C9: a failed load removes the registry entry of a module the failing
\* attempt created and leaves in place an entry that existed before it; a
\* compile of the specifier after such a removal registers a new module whose
\* load is still to come.
C9_Rollback ==
    [][/\ \A t \in TaskIds : LoadFail(t) =>
            IF tasks[t].isNew
            THEN GetModule(modules', tasks[t].spec) = NoMod
            ELSE GetModule(modules', tasks[t].spec) = GetModule(modules, tasks[t].spec)
       /\ \A s \in Specifiers :
            Compile(s) /\ FailedNew(s) /\ GetModule(modules, s) = NoMod =>
                /\ GetModule(modules', s) # NoMod
                /\ ~heap'[GetModule(modules', s)].ready
                /\ \E t \in TaskIds : /\ tasks[t].kind = "free"
                                      /\ tasks'[t].pc = "read_meta"
                                      /\ tasks'[t].isNew
      ]_vars

\* two compile calls for one specifier have each failed the load of a module
\* of their own, and the registry does not hold the specifier
C9_Witness ==
    \E r1, r2 \in Roots :
        /\ r1 # r2
        /\ tasks[r1].spec = tasks[r2].spec
        /\ tasks[r1].err /\ tasks[r1].isNew
        /\ tasks[r2].err /\ tasks[r2].isNew
        /\ GetModule(modules, tasks[r1].spec) = NoMod

\* the watch handler's compile call of t, for a module that was registered
\* with a compiled state, has failed in the load or in the transform
RefreshFailed(t) ==
    /\ t \in Roots
    /\ tasks[t].watch
    /\ tasks[t].quiet
    /\ tasks[t].err \/ tasks[t].pc = "failed"
    /\ heap[tasks[t].prev].sourceHash # EmptyHash
    /\ heap[tasks[t].prev].jsBuffer # NoBuffer

\* C10: after a failed refresh the registry holds the specifier with the
\* sourceHash, deps and jsBuffer the module had before the refresh.
C10_KeepsPrevious ==
    \A t \in TaskIds : RefreshFailed(t) =>
        /\ GetModule(modules, tasks[t].spec) # NoMod
        /\ heap[GetModule(modules, tasks[t].spec)].sourceHash = heap[tasks[t].prev].sourceHash
        /\ heap[GetModule(modules, tasks[t].spec)].deps = heap[tasks[t].prev].deps
        /\ heap[GetModule(modules, tasks[t].spec)].jsBuffer = heap[tasks[t].prev].jsBuffer

\* C11: a compile call whose source could not be loaded does not return a
\* Module (it rejects), and the module it created is not registered.
C11_FailureRejects ==
    \A t \in Roots : tasks[t].err =>
        /\ tasks[t].pc # "done"
        /\ tasks[t].isNew => GetModule(modules, tasks[t].spec) # tasks[t].mod

\* C12: a step in which the transform fails for a module invokes no further
\* transform, writes nothing to the build directory and leaves the registry as
\* it is; the failure is the outcome of the compile call, or of the
\* dependency's callback that the importer's Promise.all awaits; a compile
\* call that has failed stays failed, nothing is written for its module by it.
C12_TransformFailure ==
    [][\A t \in TaskIds :
        /\ TransformFail(t) =>
              /\ transforms' = transforms
              /\ disk' = disk
              /\ modules' = modules
              /\ heap'[tasks[t].mod].jsBuffer = heap[tasks[t].mod].jsBuffer
              /\ tasks[t].kind = "compile" \/ tasks[t].parent # 0 => tasks'[t].pc = "failed"
        /\ t \in Roots /\ tasks[t].pc = "failed" => tasks'[t] = tasks[t]
      ]_vars

\* a compile call has failed in the transform of its module, which is
\* registered without compiled bytes and without an artifact
C12_Witness ==
    \E t \in Roots :
        /\ tasks[t].pc = "failed"
        /\ ~tasks[t].err
        /\ ~tasks[t].watch
        /\ transforms[tasks[t].spec] = 1
        /\ GetModule(modules, tasks[t].spec) = tasks[t].mod
        /\ heap[tasks[t].mod].jsBuffer = NoBuffer
        /\ disk[tasks[t].spec] = NoArtifact

\* the sourceHash of the previous successful builds of the module of task t:
\* of the module the registry held when the call was made, and of the
\* persisted metadata
PrevHashes(t) ==
    (IF tasks[t].prev # NoMod /\ heap[tasks[t].prev].jsBuffer # NoBuffer
     THEN {heap[tasks[t].prev].sourceHash} ELSE {})
    \cup
    (IF disk[tasks[t].spec].js # NoBuffer
     THEN {disk[tasks[t].spec].meta.sourceHash} ELSE {})

\* every compile call so far was made while nothing else was in flight
Sequential == \A r \in Roots : tasks[r].quiet

\* the step of task t invokes the transform for its module
InvokesTransform(t) ==
    transforms'[tasks[t].spec] = transforms[tasks[t].spec] + 1

\* C15: whatever the compile options, the load of a module (the compile calls
\* being made one after the other) goes on to the transform only if the
\* freshly computed sourceHash differs from the sourceHash of the module's
\* previous successful build.
C15_HashAuthority ==
    [][\A t \in TaskIds :
        LoadOk(t) /\ InvokesTransform(t) /\ Sequential =>
            SourceHashOf(src[tasks[t].spec]) \notin PrevHashes(t)]_vars

\* a propagation started by the recursive call for a patched module
Nested(k) == tasks[k].kind = "cascade" /\ tasks[k].parent = 0

\* C16: (the compile calls being made one after the other, no load failed) while the
\* propagation recurses into a patched module M, the write of M is complete
\* and the propagation that patched M has not run to its end.
C16_SequentialCascade ==
    Sequential /\ (\A r \in Roots : ~tasks[r].err) =>
        \A k \in TaskIds : Nested(k) =>
            /\ tasks[k].mod \notin writes
            /\ \A r \in Roots : tasks[r].casc # "done"

\* task t is before the metadata read or the load of a module it has created
Creating(t) == tasks[t].pc \in {"read_meta", "load"}

Outstanding(s) ==
    {t \in TaskIds : tasks[t].spec = s /\ (At(t, "load") \/ At(t, "transform"))}

\* C18: for every specifier at most one loader or transform invocation is
\* outstanding, whatever the options of the concurrent callers.
C18_OneAttempt == \A s \in Specifiers : Cardinality(Outstanding(s)) <= 1

\* every marker of the compiled module o carries the aggregate hash of the
\* dependency it stands for
MarkersRight(o) ==
    \A i \in 1..Len(heap[o].deps) :
        LET d == heap[o].deps[i]
            m == GetModule(modules, d.specifier)
        IN d.hashLoc # 0 /\ m # NoMod =>
              heap[o].jsBuffer[d.hashLoc] = Marker(ComputeModuleHash(modules, heap, m))

\* the modules transformed so far
Transformed ==
    {modules[i].obj : i \in {j \in 1..Len(modules) :
        transforms[modules[j].key] > 0 /\ heap[modules[j].obj].jsBuffer # NoBuffer}}

\* the first compile call returns in this step, without a logged error
FirstReturns ==
    /\ calls = 1
    /\ \E t \in Roots : tasks[t].pc # "done" /\ tasks'[t].pc = "done" /\ ~tasks'[t].err

\* C20: at the moment the first top-level compile call returns, every marker
\* of every module transformed in that pass carries the aggregate hash of its
\* dependency as computeModuleHash gives it on the registry of that moment.
C20_FirstBuildMarkers ==
    [][FirstReturns => (\A o \in Transformed : MarkersRight(o))']_vars

\* C14: a start that finds a manifest recording another compiler checksum
\* leaves an empty build directory, an empty registry and no compile call in
\* flight; in the run that follows, every module with a sourceHash has had the
\* transform invoked in this run, and every artifact in the build directory
\* was written in this run.
C14_Invalidation ==
    /\ [][\A c \in Checksums :
            Restart(c) /\ manifest # NoManifest /\ manifest # c =>
                /\ disk' = [s \in Specifiers |-> NoArtifact]
                /\ modules' = <<>>
                /\ tasks' = [t \in TaskIds |-> NoTask]]_vars
    /\ [](invalidated =>
            /\ \A i \in 1..Len(modules) :
                  heap[modules[i].obj].sourceHash # EmptyHash => transforms[modules[i].key] >= 1
            /\ \A s \in Specifiers : disk[s] # NoArtifact => transforms[s] >= 1)

\* after a start with a new compiler, compile("/a") has built every module anew
C14_Witness ==
    /\ invalidated
    /\ compiler = 2
    /\ Returned("/a") # {}
    /\ \A s \in Specifiers : transforms[s] = 1 /\ disk[s] # NoArtifact

\* C13: external modules are never compiled. When the first resolver whose test
\* matches the specifier marks it external, the compile call returns at once a
\* module with external = true, no deps, an empty sourceHash, no compiled bytes
\* and a resolved ready, and the call invokes neither the loader nor the
\* transform; no task ever loads, transforms or writes an external module.
FirstMatch(s) ==
    {i \in 1..Len(resolvers) :
        /\ s \in resolvers[i].test
        /\ \A j \in 1..(i - 1) : s \notin resolvers[j].test}

MarkedExternal(s) == \E i \in FirstMatch(s) : resolvers[i].external

IsExternal(t) == tasks[t].mod # NoMod /\ heap[tasks[t].mod].external

C13_ExternalNeverCompiled ==
    /\ [][\A s \in Specifiers : Compile(s) /\ MarkedExternal(s) =>
            /\ loads' = loads /\ transforms' = transforms /\ disk' = disk
            /\ writes' = writes
            /\ \E t \in TaskIds :
                  /\ tasks[t].kind = "free" /\ tasks'[t].kind = "compile"
                  /\ tasks'[t].pc = "done"
                  /\ LET m == heap'[tasks'[t].mod] IN
                        /\ m.external /\ m.deps = <<>> /\ m.sourceHash = EmptyHash
                        /\ m.jsBuffer = NoBuffer /\ m.ready]_vars
    /\ [](\A t \in TaskIds : IsExternal(t) =>
            /\ tasks[t].pc = "done"
            /\ tasks[t].mod \notin writes
            /\ heap[tasks[t].mod] = ExternalModule(tasks[t].spec))

\* a compile call has returned an external module, and a module that imports
\* an external one has been compiled
C13_Witness ==
    /\ \E t \in Roots : IsExternal(t) /\ loads[tasks[t].spec] = 0
    /\ \E t \in TaskIds : tasks[t].kind = "dep" /\ IsExternal(t)
                            /\ heap[tasks[t].tgt].jsBuffer # NoBuffer

\* C19: external modules are registered. The external module #initModule
\* returns is stored in the registry under the resolved specifier, so that
\* getModule(resolved specifier) returns it.
C19_ExternalRegistered ==
    \A t \in TaskIds : IsExternal(t) =>
        GetModule(modules, heap[tasks[t].mod].specifier) = tasks[t].mod

\* the compiled bytes of module o: the buffer in memory, or the output file
Bytes(o) ==
    IF heap[o].jsBuffer # NoBuffer THEN heap[o].jsBuffer ELSE disk[heap[o].specifier].js

\* every marker of the registered module o carries the current aggregate hash
\* of the registered dependency it stands for
MarkersCurrent(o) ==
    \A i \in 1..Len(heap[o].deps) :
        LET d == heap[o].deps[i]
            m == GetModule(modules, d.specifier)
        IN d.hashLoc # 0 /\ m # NoMod =>
              /\ Bytes(o) # NoBuffer
              /\ Bytes(o)[d.hashLoc] = Marker(ComputeModuleHash(modules, heap, m))

\* the watch handler's compile call of t has returned and every propagation
\* and every write it has started has come to its end
Quiesced(t) ==
    /\ t \in Roots
    /\ tasks[t].watch
    /\ tasks[t].pc = "done"
    /\ tasks[t].casc = "done"
    /\ ~tasks[t].err
    /\ Settled
    /\ writes = {}

\* C21: after a watch-triggered recompile of a module and the complete
\* propagation it triggers, every marker of every registered module carries
\* the current aggregate hash of its dependency, also in the modules that
\* reach the recompiled one only through other modules.
C21_TransitiveCascade ==
    \A t \in TaskIds : Quiesced(t) =>
        \A i \in 1..Len(modules) : MarkersCurrent(modules[i].obj)

\* C22: a propagation performs finitely many patches and recursive
\* propagations and then stops, also on import graphs with cycles: from some
\* moment on no propagation is in progress and no write is pending.
C22_CascadeTerminates ==
    <>[](writes = {} /\ \A k \in TaskIds : tasks[k].kind # "cascade")

\* on a graph with a cycle a propagation has patched modules, recursed and
\* come to its end
C22_Witness ==
    /\ graph \in {CycleGraph, KnotGraph}
    /\ \E t \in TaskIds : Quiesced(t) /\ transforms[tasks[t].spec] = 2
    /\ \E s \in Specifiers : disk[s].js # NoBuffer /\ transforms[s] = 1
                                /\ disk[s].js[2] # Placeholder
                                /\ Len(disk[s].js[2]) > 1 /\ <<2>> \in {disk[s].js[2][j] : j \in 1..Len(disk[s].js[2])}

\* the offsets of the six bytes at hashLoc
Window(hashLoc) == hashLoc..(hashLoc + MarkerLen - 1)

\* C23: a #replaceDepHash call leaves the length of the compiled buffer as it
\* is and changes no byte outside the six bytes at its hashLoc; after any
\* number of patches the buffer is the transform's output but for the six
\* bytes at each recorded hashLoc, which lie inside the buffer and hold six
\* digits of a digest (or the placeholder).
C23_PatchFrame ==
    /\ [][buffer # NoOutput =>
            /\ Len(buffer'.jsBuffer) = Len(buffer.jsBuffer)
            /\ buffer'.hashLocs = buffer.hashLocs
            /\ \E j \in DOMAIN buffer.hashLocs :
                  \A p \in 0..(Len(buffer.jsBuffer) - 1) :
                      p \notin Window(buffer.hashLocs[j]) =>
                          buffer'.jsBuffer[p + 1] = buffer.jsBuffer[p + 1]]_vars
    /\ [](buffer # NoOutput =>
            /\ Len(buffer.jsBuffer) = Len(buffer.output)
            /\ \A j \in DOMAIN buffer.hashLocs :
                  /\ buffer.hashLocs[j] >= 0
                  /\ Window(buffer.hashLocs[j]) \subseteq 0..(Len(buffer.jsBuffer) - 1)
                  /\ \A p \in Window(buffer.hashLocs[j]) :
                        buffer.jsBuffer[p + 1] \in HexDigits \cup {Zero}
            /\ \A p \in 0..(Len(buffer.jsBuffer) - 1) :
                  (\A j \in DOMAIN buffer.hashLocs : p \notin Window(buffer.hashLocs[j])) =>
                      buffer.jsBuffer[p + 1] = buffer.output[p + 1])

\* both markers of an output with two imports have been patched, the second
\* one at the very end of the buffer
C23_Witness ==
    /\ buffer.n = MaxPatches
    /\ Len(buffer.hashLocs) = 2
    /\ buffer.hashLocs[2] + MarkerLen = Len(buffer.jsBuffer)
    /\ \A j \in 1..2 :
          Slice(buffer.jsBuffer, buffer.hashLocs[j], buffer.hashLocs[j] + MarkerLen)
            \in {HashData(h) : h \in Hashes}
    /\ Slice(buffer.jsBuffer, buffer.hashLocs[1], buffer.hashLocs[1] + MarkerLen)
          # Slice(buffer.jsBuffer, buffer.hashLocs[2], buffer.hashLocs[2] + MarkerLen)

\* the registered module of s has been loaded and has no compiled bytes
Uncompiled(s) ==
    /\ GetModule(modules, s) # NoMod
    /\ heap[GetModule(modules, s)].ready
    /\ heap[GetModule(modules, s)].jsBuffer = NoBuffer
    /\ heap[GetModule(modules, s)].deps = <<>>

\* C30: when the loaded source of a module has an unrecognized type, the step
\* that loads it invokes no transform and the task goes on as after a
\* completed #transpileModule; the module stays registered without compiled
\* bytes and nothing is persisted for it, no compile call fails, and once
\* compile("/a") has returned and the process has settled the other
\* dependencies of /a are compiled and persisted.
C30_UnsupportedIsLocal ==
    /\ [][\A t \in TaskIds : LoadOk(t) /\ tasks[t].spec \in unknown =>
            /\ transforms' = transforms
            /\ disk' = disk
            /\ tasks'[t].pc \in {"done", "await_deps"}
            /\ GetModule(modules', tasks[t].spec) = tasks[t].mod
            /\ heap'[tasks[t].mod].jsBuffer = NoBuffer]_vars
    /\ [](\A s \in unknown :
            /\ transforms[s] = 0
            /\ disk[s] = NoArtifact
            /\ loads[s] > 0 /\ (\A t \in TaskIds : tasks[t].spec = s => tasks[t].pc # "load")
                  => Uncompiled(s))
    /\ [](\A t \in TaskIds : tasks[t].pc # "failed" /\ ~tasks[t].err)
    /\ [](Settled /\ Returned("/a") # {} =>
            \A i \in 1..Len(graph["/a"]) :
                LET s == graph["/a"][i] IN
                s \notin unknown =>
                    /\ GetModule(modules, s) # NoMod
                    /\ heap[GetModule(modules, s)].jsBuffer # NoBuffer
                    /\ disk[s].js # NoBuffer)

\* /a imports /b, of no supported type, and /c; compile("/a") has returned,
\* /b is registered without compiled bytes and /c is compiled
C30_Witness ==
    /\ graph = DiamondGraph
    /\ unknown = {"/b"}
    /\ Settled
    /\ Returned("/a") # {}
    /\ Uncompiled("/b")
    /\ heap[GetModule(modules, "/b")].sourceHash = SourceHashOf(EmptyCode)
    /\ loads["/b"] = 1
    /\ disk["/c"].js # NoBuffer
    /\ heap[GetModule(modules, "/a")].jsBuffer # NoBuffer

C25_MissingArtifactRebuilt ==
    Settled =>
        \A s \in Specifiers :
            \A t \in Returned(s) :
                heap[tasks[t].mod].jsBuffer # NoBuffer \/ disk[s].js # NoBuffer

\* C26: the metadata file is merged into a new module only when it is JSON
\* whose specifier is the requested one, whose sourceHash is not empty and
\* whose deps is a list; with any other content nothing is merged, the call
\* does not fail, the source is loaded and then transformed
C26_MetadataGate ==
    [][\A t \in TaskIds :
         LET s == tasks[t].spec
             o == tasks[t].mod
             meta == disk[s].meta
             wellFormed == /\ meta.shape = "object"
                           /\ meta.specifier = s
                           /\ meta.sourceHash # EmptyHash
         IN /\ ReadMeta(t) =>
                 IF wellFormed
                 THEN /\ heap'[o].sourceHash = meta.sourceHash
                      /\ heap'[o].deps = meta.deps
                 ELSE /\ heap'[o] = heap[o]
                      /\ heap'[o].sourceHash = EmptyHash
                      /\ heap'[o].deps = <<>>
                      /\ tasks'[t].pc = "load"
                      /\ ~tasks'[t].err
            /\ LoadOk(t) /\ heap[o].sourceHash = EmptyHash =>
                 /\ tasks'[t].pc = "transform"
                 /\ ~tasks'[t].err]_vars

\* a module is in its transform in a later run, its output file on disk and
\* its metadata file discarded
C26_Witness ==
    \E t \in TaskIds :
        /\ tasks[t].pc = "transform"
        /\ restarts > 0
        /\ disk[tasks[t].spec].js # NoBuffer
        /\ disk[tasks[t].spec].meta = NoMeta

\* the fields of the round trip other than httpExternal
RoundTripKeys ==
    {"specifier", "deps", "sourceHash", "isStyle", "denoHooks", "ssrPropsFn",
     "ssgPathsFn", "jsxStaticClassNames"}

\* the dependency lists hold the same specifier, isDynamic and hashLoc
SameDeps(a, b) ==
    /\ Len(a) = Len(b)
    /\ \A j \in 1..Len(a) :
          \A k \in KeySet(DepKeys) : ReadKey(a[j], k) = ReadKey(b[j], k)

\* the two objects have the same value of the property k
SameValue(k, a, b) ==
    IF k = "deps"
    THEN "deps" \in DOMAIN a /\ "deps" \in DOMAIN b /\ SameDeps(a[k], b[k])
    ELSE ReadKey(a, k) = ReadKey(b, k)

\* C27: the metadata that #initModule merges into the module of a process
\* with an empty registry gives the module the specifier, the deps (each
\* hashLoc and isDynamic included), the sourceHash and the flags isStyle,
\* denoHooks, ssrPropsFn, ssgPathsFn, jsxStaticClassNames and httpExternal of
\* the module that #cacheModule has persisted, and the persisted record holds
\* neither the compiled bytes nor the ready signal
C27_MetadataRoundTrip ==
    sidecar.phase = "restored" =>
        /\ \A k \in RoundTripKeys \cup {"httpExternal"} :
              SameValue(k, sidecar.restored, sidecar.module)
        /\ \A i \in DOMAIN sidecar.file : sidecar.file[i][1] \notin {"jsBuffer", "ready"}

\* C27, amended: as C27, with the httpExternal of the persisted module only
\* when the persisted module has one, and the httpExternal option of the new
\* call when it has none
C27_MetadataRoundTripAmended ==
    sidecar.phase = "restored" =>
        /\ \A k \in RoundTripKeys :
              SameValue(k, sidecar.restored, sidecar.module)
        /\ ReadKey(sidecar.restored, "httpExternal") =
              IF ReadKey(sidecar.module, "httpExternal") # Undefined
              THEN ReadKey(sidecar.module, "httpExternal")
              ELSE sidecar.option
        /\ \A i \in DOMAIN sidecar.file : sidecar.file[i][1] \notin {"jsBuffer", "ready"}

\* a module with two dependencies and every flag, persisted without an
\* httpExternal, is restored by a call that has the httpExternal option
C27_Witness ==
    /\ sidecar.phase = "restored"
    /\ sidecar.option = "true"
    /\ ReadKey(sidecar.module, "httpExternal") = Undefined
    /\ Len(sidecar.module["deps"]) = 2
    /\ \A k \in RoundTripKeys \ {"deps"} : ReadKey(sidecar.module, k) # Undefined

\* every dependency of the module o that is not external is registered
Closed(o) ==
    \A i \in DOMAIN heap[o].deps :
        LET r == Resolve(resolvers, heap[o].deps[i].specifier)
        IN r.external \/ GetModule(modules, r.specifier) # NoMod

\* C28: once every compile call has returned, and none with an error, every
\* dependency that the deps of a registered module list and that is not
\* external is registered, also for a module whose deps came from its metadata
C28_RegistryClosure ==
    (Settled /\ \A t \in Roots : ~tasks[t].err) =>
        \A i \in DOMAIN modules : Closed(modules[i].obj)

RECURSIVE ReachIn(_, _, _, _)
ReachIn(reg, hp, R, n) ==
    IF n = 0 THEN R
    ELSE ReachIn(reg, hp,
                 R \cup {d \in Specifiers :
                            /\ GetModule(reg, d) # NoMod
                            /\ \E s \in R : \E i \in DOMAIN hp[GetModule(reg, s)].deps :
                                  hp[GetModule(reg, s)].deps[i].specifier = d},
                 n - 1)

Reach(reg, hp, s) ==
    IF GetModule(reg, s) = NoMod THEN {}
    ELSE ReachIn(reg, hp, {s}, Cardinality(Specifiers))

\* C31: within one lookupDeps call the callback is invoked at most once for
\* any given dependency specifier
C31_VisitsOncePerSpecifier ==
    \A i, j \in DOMAIN lookup.visits :
        lookup.visits[i].specifier = lookup.visits[j].specifier => i = j

\* C31, amended: within one lookupDeps call the deps of any given module are
\* walked at most once, so the callback is invoked at most once for any given
\* Dependency record
C31_VisitsOncePerRecord ==
    \A i, j \in DOMAIN lookup.visits :
        /\ lookup.visits[i].owner = lookup.visits[j].owner
        /\ lookup.visits[i].index = lookup.visits[j].index
        => i = j

\* a call on the cycle of three modules has walked the deps of all of them,
\* one of which leads back to the start
C31_Witness ==
    /\ graph = KnotGraph
    /\ lookup.start = "/a"
    /\ lookup.stop = ""
    /\ Len(lookup.visits) = 4
    /\ \E i \in DOMAIN lookup.visits : lookup.visits[i].specifier = "/a"

\* C32: a lookupDeps call whose callback never returns false ends having
\* invoked the callback on every Dependency record of every registered module
\* that the deps lead to from the start; when the callback returns false, the
\* call returns false and that invocation is its last
C32_LookupComplete ==
    lookup.returned # "none" =>
        LET stops == {i \in DOMAIN lookup.visits : lookup.visits[i].specifier = lookup.stop}
        IN /\ lookup.stop = "" =>
                /\ lookup.returned = "undefined"
                /\ {<<lookup.visits[i].owner, lookup.visits[i].index>> :
                       i \in DOMAIN lookup.visits}
                   = {<<s, i>> \in Specifiers \X (1..Cardinality(Specifiers)) :
                        /\ s \in Reach(modules, heap, lookup.start)
                        /\ i \in DOMAIN heap[GetModule(modules, s)].deps}
           /\ stops # {} <=> lookup.returned = "false"
           /\ stops \subseteq {Len(lookup.visits)}
           /\ \A i \in DOMAIN lookup.visits :
                 /\ lookup.visits[i].owner \in Reach(modules, heap, lookup.start)
                 /\ heap[GetModule(modules, lookup.visits[i].owner)].deps[lookup.visits[i].index].specifier
                    = lookup.visits[i].specifier

\* a call on a cycle has stopped at the callback's false before the last record
C32_Witness ==
    /\ graph = KnotGraph
    /\ Len(modules) = 3
    /\ lookup.start = "/a"
    /\ lookup.stop = "/c"
    /\ lookup.returned = "false"
    /\ Len(lookup.visits) = 2

\* C33: computeModuleHash(M) is determined by the sourceHash of M and of the
\* registered modules that the deps lead to from M: when the sourceHash of one
\* registered module changes, computeModuleHash(M) changes if that module is M
\* or is reached from M, and stays the same if it is not
C33_AggregateCoversClosure ==
    [][\A o \in Objs :
         Rehash(o, heap'[o].sourceHash[1]) =>
           \A i \in DOMAIN modules :
               LET m == modules[i].obj IN
               (ComputeModuleHash(modules, heap', m) # ComputeModuleHash(modules, heap, m))
                 <=> heap[o].specifier \in Reach(modules, heap, heap[m].specifier)]_vars

\* the sourceHash of /c has changed in the registry of /a -> /b -> /c, where
\* /c is reached from /a through /b only
C33_Witness ==
    /\ graph = ChainGraph
    /\ Len(modules) = 3
    /\ heap[3].sourceHash = SourceHashOf(2)
    /\ heap[1].sourceHash = SourceHashOf(1)

\* the plugins of a configuration that match the specifier, each with its
\* name and checksum
MatchingPlugins(ps) ==
    {[name |-> ps[MatchedIds(ps)[i]].name, checksum |-> ps[MatchedIds(ps)[i]].checksum] :
        i \in DOMAIN MatchedIds(ps)}

\* C34: two configurations with the same source, the same import map and the
\* same matching plugins with the same checksums give the same sourceHash,
\* whatever the order of the plugins and whether they match as loader or as
\* transform listener
C34_ChecksumOrderIndependent ==
    [][(hasher.plugins # <<>> /\ MatchingPlugins(hasher'.plugins) = MatchingPlugins(hasher.plugins))
          => hasher'.sourceHash = hasher.sourceHash]_vars

\* C35: the module a compile call is given has the specifier and the
\* external flag of the first registered resolver whose test matches the
\* requested specifier, whatever the later resolvers return, the requested
\* specifier when that resolver returns none; with no matching resolver it has
\* the requested specifier and is not external
C35_FirstMatchWins ==
    [][\A s \in Specifiers :
         Compile(s) =>
           \E t \in TaskIds :
               /\ tasks[t].kind = "free" /\ tasks'[t].kind = "compile"
               /\ LET m == heap'[tasks'[t].mod] IN
                  IF FirstMatch(s) = {}
                  THEN m.specifier = s /\ ~m.external
                  ELSE \A i \in FirstMatch(s) :
                         /\ m.external = resolvers[i].external
                         /\ m.specifier = IF resolvers[i].specifier = "" THEN s
                                          ELSE resolvers[i].specifier]_vars

\* compile('/b') has returned a module that is not external, by the first
\* resolver, where the second resolver matches /b as well and makes it external
C35_Witness ==
    /\ Len(resolvers) = 2
    /\ \A i \in 1..2 : "/b" \in resolvers[i].test
    /\ resolvers[2].external
    /\ \E t \in Roots :
          /\ tasks[t].pc = "done"
          /\ ~heap[tasks[t].mod].external
          /\ heap[tasks[t].mod].specifier = "/c"
          /\ tasks[t].spec = "/c"

\* C36: when the watch handler has processed the event of a specifier whose
\* file is gone, the registry has no entry for the specifier, and every other
\* registered module is registered as before with the deps and the compiled
\* buffer it had
C36_RemovalOnDisappearance ==
    [][\A s \in Specifiers :
         WatchRemove(s) =>
           /\ GetModule(modules', s) = NoMod
           /\ \A i \in DOMAIN modules :
                 modules[i].key # s =>
                   /\ GetModule(modules', modules[i].key) = modules[i].obj
                   /\ heap'[modules[i].obj].deps = heap[modules[i].obj].deps
                   /\ heap'[modules[i].obj].jsBuffer = heap[modules[i].obj].jsBuffer
           /\ Len(modules') = Len(modules) - 1]_vars

\* /b, once compiled, is gone from the registry without another load, while
\* /a, which imports it, is registered with its deps and its buffer
C36_Witness ==
    /\ src["/b"] = NoFile
    /\ GetModule(modules, "/b") = NoMod
    /\ disk["/b"].js # NoBuffer
    /\ loads["/b"] = 1
    /\ GetModule(modules, "/a") # NoMod
    /\ heap[GetModule(modules, "/a")].jsBuffer # NoBuffer
    /\ \E i \in DOMAIN heap[GetModule(modules, "/a")].deps :
          heap[GetModule(modules, "/a")].deps[i].specifier = "/b"

\* no call or callback is in progress and every registered module is ready
AllReturned ==
    /\ \A t \in TaskIds : tasks[t].pc \in {"-", "done", "failed"}
    /\ \A i \in DOMAIN modules : heap[modules[i].obj].ready

C38_FailureRemovesOwnModule ==
    [][\A t \in TaskIds :
         LoadFail(t) /\ tasks[t].isNew =>
           \/ GetModule(modules, tasks[t].spec) \in {NoMod, tasks[t].mod}
           \/ GetModule(modules', tasks[t].spec) = GetModule(modules, tasks[t].spec)]_vars

\* getModule('app')
GetApp == appModule

\* C39: getModule('app') returns null or the Module object the registry holds
\* under the specifier of the app module; once the app module is removed from
\* the registry, getModule('app') does not return it any more
C39_AppAliasConsistent ==
    GetApp = NoMod \/ GetApp = GetModule(modules, appSpecifier)

\* the module registered under s is one whose transform has failed: it has
\* the sourceHash of a source the transform fails on and no compiled bytes,
\* and no attempt on it is in progress (calls may be waiting for its ready)
Sticky(s) ==
    LET m == GetModule(modules, s) IN
    /\ m # NoMod
    /\ heap[m].ready
    /\ heap[m].jsBuffer = NoBuffer
    /\ \E c \in Contents : Broken(c) /\ heap[m].sourceHash = SourceHashOf(c)
    /\ \A u \in TaskIds :
          tasks[u].mod = m => tasks[u].pc \in {"done", "failed", "await_ready"}

====
